---- MODULE Spec2Model ----
(***************************************************************************)
(* A state-machine model of the gameboy-rs emulator core: the CPU          *)
(* (src/src/cpu.rs, src/src/instruction.rs), the bus (src/src/memory/      *)
(* mmu.rs), the graphics unit (src/src/gpu.rs), the timer                  *)
(* (src/src/timer.rs), the cartridge (src/src/cartridge.rs) and the device *)
(* (src/src/device.rs).                                                    *)
(*                                                                         *)
(* The state mirrors the Rust structs: `cpu` is struct Cpu, `mmu` is       *)
(* struct Mmu (which owns the Cartridge, the Gpu and the Timer), `fs` is   *)
(* the save file saves/<title>.sav, and `obs` records what the last        *)
(* operation returned, so that properties can speak about return values.   *)
(* Byte arrays (work RAM, VRAM, ROM image, ...) are kept sparse: a         *)
(* function from the offsets that hold a non-zero byte to that byte; every *)
(* other offset reads as 0.                                                *)
(***************************************************************************)
EXTENDS Integers, Sequences, FiniteSets, TLC

VARIABLES cpu, mmu, fs, build, obs

vars == <<cpu, mmu, fs, build, obs>>

(***************************************************************************)
(* Fixed-width integer helpers (u8 / u16 arithmetic and bit operations).   *)
(***************************************************************************)
Pow2(n) == 2 ^ n

BitAt(x, n) == (x \div Pow2(n)) % 2

U8(x) == x % 256

U16(x) == x % 65536

RECURSIVE BitAndN(_, _, _)
BitAndN(a, b, n) ==
    IF n = 0 THEN 0
    ELSE (a % 2) * (b % 2) + 2 * BitAndN(a \div 2, b \div 2, n - 1)

RECURSIVE BitOrN(_, _, _)
BitOrN(a, b, n) ==
    IF n = 0 THEN 0
    ELSE (IF (a % 2) + (b % 2) > 0 THEN 1 ELSE 0) + 2 * BitOrN(a \div 2, b \div 2, n - 1)

RECURSIVE BitXorN(_, _, _)
BitXorN(a, b, n) ==
    IF n = 0 THEN 0
    ELSE ((a + b) % 2) + 2 * BitXorN(a \div 2, b \div 2, n - 1)

And8(a, b) == BitAndN(a, b, 8)

Or8(a, b) == BitOrN(a, b, 8)

Xor8(a, b) == BitXorN(a, b, 8)

Not8(a) == 255 - a

(* x with bit n forced to v (v in {0,1}) *)
WithBit(x, n, v) == x - BitAt(x, n) * Pow2(n) + v * Pow2(n)

(***************************************************************************)
(* Sparse byte arrays.                                                     *)
(***************************************************************************)
EmptyArr == [o \in {} |-> 0]

ArrGet(arr, off) == IF off \in DOMAIN arr THEN arr[off] ELSE 0

ArrSet(arr, off, v) ==
    [o \in ((DOMAIN arr) \cup {off}) \ (IF v = 0 THEN {off} ELSE {}) |->
        IF o = off THEN v ELSE arr[o]]

(***************************************************************************)
(* Interrupts (bitflags, cpu.rs 11-19).                                    *)
(***************************************************************************)
Interrupts ==
    [ VBLANK |-> Pow2(0), LCD_STAT |-> Pow2(1), TIMER |-> Pow2(2), SERIAL |-> Pow2(3),
      JOYPAD |-> Pow2(4) ]

IntInsert(set, other) == Or8(set, other)

IntRemove(set, other) == And8(set, Not8(other))

IntContains(set, flag) == And8(set, flag) = flag

(* from_bits_truncate: only the five defined bits are kept *)
IntTruncate(value) == value % 32

(***************************************************************************)
(* Graphics unit (gpu.rs).                                                 *)
(***************************************************************************)
StatInterruptSource ==
    [HBLANK |-> Pow2(3), VBLANK |-> Pow2(4), OAM |-> Pow2(5), LYC_LY |-> Pow2(6)]

LcdControl ==
    [ BG_WINDOW_ENABLE |-> Pow2(0), OBJ_ENABLE |-> Pow2(1), OBJ_SIZE |-> Pow2(2),
      BG_TILEMAP_AREA |-> Pow2(3), BG_WINDOW_TILEDATA_AREA |-> Pow2(4),
      WINDOW_ENABLE |-> Pow2(5), WINDOW_TILEMAP_AREA |-> Pow2(6), LCD_ENABLE |-> Pow2(7) ]

GpuModes == {"HBlank", "VBlank", "OamRead", "VramRead"}

ModeNum(mode) ==
    CASE mode = "HBlank" -> 0
      [] mode = "VBlank" -> 1
      [] mode = "OamRead" -> 2
      [] mode = "VramRead" -> 3

GpuNew ==
    [ vram |-> EmptyArr, oam |-> EmptyArr,
      mode |-> "HBlank", mode_cycles |-> 0, line |-> 0, lyc |-> 0,
      scroll_x |-> 0, scroll_y |-> 0,
      tiles |-> EmptyArr, framebuffer |-> EmptyArr,
      lcd_control |-> 0, stat_interrupt_source |-> 0,
      bg_palette |-> <<0, 0, 0, 0>>,
      obj_palette |-> << <<0, 0, 0, 0>>, <<0, 0, 0, 0>> >>,
      window_coords |-> <<0, 0>>,
      window_drawing |-> FALSE, window_line |-> 0 ]

GpuReset(g) ==
    [g EXCEPT !.scroll_x = 0, !.scroll_y = 0, !.line = 0,
              !.mode = "HBlank", !.mode_cycles = 0]

GpuStat(g) ==
    Or8(Or8(g.stat_interrupt_source, ModeNum(g.mode)),
        IF g.line = g.lyc THEN Pow2(2) ELSE 0)

(* StatInterruptSource::from_bits_truncate keeps bits 3..6 *)
GpuSetStat(g, value) ==
    [g EXCEPT !.stat_interrupt_source = And8(value, 120)]

GpuScanline(g) == g.line

(***************************************************************************)
(* Rendering.  The renderers return the new Gpu and "panic" where the code *)
(* indexes outside an array or, in a build with overflow checks (oc),      *)
(* overflows; "none" otherwise.                                            *)
(***************************************************************************)
ScreenWidth == 160

FramebufferSize == 160 * 144

VramSize == 8192

LowTilemap == 6144

HighTilemap == 7168

(* Tile::get on tile number tile of the cache *)
TileGet(tiles, tile, x, y) == ArrGet(tiles, tile * 64 + x + y * 8)

(* the tile number read from vram[index], moved to the upper block when    *)
(* BG_WINDOW_TILEDATA_AREA is clear and the number is below 128            *)
TileAt(g, index) ==
    LET tile == ArrGet(g.vram, index)
    IN  IF And8(g.lcd_control, LcdControl.BG_WINDOW_TILEDATA_AREA) = 0 /\ tile < 128
        THEN tile + 256 ELSE tile

(* framebuffer[index] = px[index] for every index in the domain of px *)
FramebufferWith(fb, px) ==
    [k \in ((DOMAIN fb) \ (DOMAIN px)) \cup {r \in DOMAIN px : px[r] # 0} |->
        IF k \in DOMAIN px THEN px[k] ELSE fb[k]]

(* render_background_scanline: pixel x of the line comes from column       *)
(* (scroll_x % 8 + x) % 8 of the tile fetched (scroll_x % 8 + x) / 8 tiles *)
(* after the first, the offset into the map row wrapping at 32             *)
RenderBackgroundScanline(g) ==
    LET sy == (g.line + g.scroll_y) % 256
        address == (IF And8(g.lcd_control, LcdControl.BG_TILEMAP_AREA) # 0
                    THEN HighTilemap ELSE LowTilemap) + (sy \div 8) * 32
        tile_y == sy % 8
        first == ScreenWidth * g.line
        row == {first + x : x \in 0..(ScreenWidth - 1)}
        px == [k \in row |->
                 LET n == (g.scroll_x % 8) + (k - first)
                     line_offset == ((g.scroll_x \div 8) + (n \div 8)) % 32
                 IN  g.bg_palette[TileGet(g.tiles, TileAt(g, address + line_offset),
                                          n % 8, tile_y) + 1]]
    IN  IF first + ScreenWidth > FramebufferSize
        THEN [gpu |-> g, err |-> "panic"]
        ELSE [gpu |-> [g EXCEPT !.framebuffer = FramebufferWith(g.framebuffer, px)],
              err |-> "none"]

(* render_window_scanline; window_coords is (x, y) *)
RenderWindowScanline(g) ==
    LET wx == g.window_coords[1]
        wy == g.window_coords[2]
        address == (IF And8(g.lcd_control, LcdControl.WINDOW_TILEMAP_AREA) # 0
                    THEN HighTilemap ELSE LowTilemap) + (g.window_line \div 8) * 32
        tile_y == g.window_line % 8
        real_x == IF wx >= 7 THEN wx - 7 ELSE 0
        first == real_x + ScreenWidth * g.line
        count == ScreenWidth - real_x
        row == {first + x : x \in 0..(count - 1)}
        px == [k \in row |->
                 g.bg_palette[TileGet(g.tiles, TileAt(g, address + ((k - first) \div 8)),
                                      (k - first) % 8, tile_y) + 1]]
    IN  IF g.line < wy \/ ~g.window_drawing \/ wx > 166 \/ wy > 143
        THEN [gpu |-> g, err |-> "none"]
        ELSE IF \/ first + count > FramebufferSize
                \/ address + (count \div 8) >= VramSize
        THEN [gpu |-> g, err |-> "panic"]
        ELSE [gpu |-> [g EXCEPT !.framebuffer = FramebufferWith(g.framebuffer, px),
                                !.window_line = g.window_line + 1],
              err |-> "none"]

SpriteCount == 40

SpritesPerLine == 10

SpriteHeight(g) == IF And8(g.lcd_control, LcdControl.OBJ_SIZE) # 0 THEN 16 ELSE 8

(* the filter of render_sprite_scanline, in u8 arithmetic *)
SpriteOnLine(g, i) ==
    /\ g.line + 16 >= ArrGet(g.oam, i * 4)
    /\ g.line + 16 < (ArrGet(g.oam, i * 4) + SpriteHeight(g)) % 256

(* the filter is asked about sprite i while fewer than ten have passed *)
SpriteAsked(g, i) ==
    Cardinality({j \in 0..(i - 1) : SpriteOnLine(g, j)}) < SpritesPerLine

(* the u8 addition of the filter's second comparison overflows *)
SpriteFilterOverflows(g) ==
    \E i \in 0..(SpriteCount - 1) :
        /\ SpriteAsked(g, i)
        /\ g.line + 16 >= ArrGet(g.oam, i * 4)
        /\ ArrGet(g.oam, i * 4) + SpriteHeight(g) > 255

RECURSIVE SortSprites(_, _)
(* sort_by_key is stable: by x position, then by index *)
SortSprites(g, set) ==
    IF set = {} THEN <<>>
    ELSE LET m == CHOOSE i \in set : \A j \in set :
                     \/ ArrGet(g.oam, i * 4 + 1) < ArrGet(g.oam, j * 4 + 1)
                     \/ ArrGet(g.oam, i * 4 + 1) = ArrGet(g.oam, j * 4 + 1) /\ i <= j
         IN  <<m>> \o SortSprites(g, set \ {m})

(* the body of the loop over the sprites: sprite i drawn on framebuffer fb *)
DrawSprite(g, fb, i, oc) ==
    LET oam_y == ArrGet(g.oam, i * 4)
        sprite_x == ArrGet(g.oam, i * 4 + 1) - 8
        tile_index == ArrGet(g.oam, i * 4 + 2)
        attributes == ArrGet(g.oam, i * 4 + 3)
        large == And8(g.lcd_control, LcdControl.OBJ_SIZE) # 0
        y0 == g.line + 16 - oam_y
        y == IF large /\ y0 >= 8 THEN y0 - 8 ELSE y0
        tile == IF large
                THEN (IF y0 >= 8 THEN (tile_index - (tile_index % 2)) + 1
                      ELSE tile_index - (tile_index % 2))
                ELSE tile_index
        bg_priority == BitAt(attributes, 7) = 1
        first == g.line * ScreenWidth + sprite_x
        drawn == {x \in 0..7 : TileGet(g.tiles, tile, x, y) # 0 /\ sprite_x + x >= 0}
        row == {first + x : x \in {d \in drawn : ~bg_priority \/ ArrGet(fb, first + d) = 0}}
        px == [k \in row |-> TileGet(g.tiles, tile, k - first, y)]
    IN  IF (oc /\ oam_y < 16) \/ y > 7 \/ (\E x \in drawn : first + x >= FramebufferSize)
        THEN [fb |-> fb, err |-> "panic"]
        ELSE [fb |-> FramebufferWith(fb, px), err |-> "none"]

RECURSIVE DrawSprites(_, _, _, _)
DrawSprites(g, r, indices, oc) ==
    IF indices = <<>> \/ r.err # "none" THEN r
    ELSE DrawSprites(g, DrawSprite(g, r.fb, Head(indices), oc), Tail(indices), oc)

RenderSpriteScanline(g, oc) ==
    LET taken == {i \in 0..(SpriteCount - 1) : SpriteAsked(g, i) /\ SpriteOnLine(g, i)}
        r == DrawSprites(g, [fb |-> g.framebuffer, err |-> "none"],
                         SortSprites(g, taken), oc)
    IN  IF oc /\ SpriteFilterOverflows(g)
        THEN [gpu |-> g, err |-> "panic"]
        ELSE [gpu |-> [g EXCEPT !.framebuffer = r.fb], err |-> r.err]

RenderScanline(g, oc) ==
    LET off == [gpu |-> [g EXCEPT !.framebuffer = EmptyArr], err |-> "none"]
        bg == IF And8(g.lcd_control, LcdControl.BG_WINDOW_ENABLE) = 0 THEN off
              ELSE RenderBackgroundScanline(g)
        win == IF bg.err = "none" /\ And8(g.lcd_control, LcdControl.WINDOW_ENABLE) # 0
               THEN RenderWindowScanline(bg.gpu) ELSE bg
        obj == IF win.err = "none" /\ And8(g.lcd_control, LcdControl.OBJ_ENABLE) # 0
               THEN RenderSpriteScanline(win.gpu, oc) ELSE win
    IN  IF And8(g.lcd_control, LcdControl.LCD_ENABLE) = 0 THEN off ELSE obj

(* a horizontal blank one M-cycle short *)
HBlankLenShort == 204 - 4

HBlankLen == 204

VBlankLineLen == 456

OamReadLen == 80

VramReadLen == 172

(* a frame of 143 visible lines *)
LastVisibleLineShort == 143 - 1

(* a frame of 145 visible lines *)
LastVisibleLineLong == 143 + 1

LastVisibleLine == 143

(* a vertical blank of nine lines *)
LastLineShort == 153 - 1

LastLine == 153

(* Gpu::cycle: returns the new Gpu, frame_done and the new interrupts, and *)
(* "panic" when rendering the line panicked                               *)
GpuCycle(g, cycles, oc) ==
    LET mc == g.mode_cycles + cycles
        src == g.stat_interrupt_source
    IN  CASE g.mode = "HBlank" ->
               IF mc >= HBlankLen
               THEN LET line == g.line + 1
                        lycInt == IF And8(src, StatInterruptSource.LYC_LY) # 0 /\ g.lyc = line
                                  THEN Interrupts.LCD_STAT ELSE 0
                    IN  IF line > LastVisibleLine
                        THEN [ gpu |-> [g EXCEPT !.mode_cycles = mc - HBlankLen,
                                                 !.line = line,
                                                 !.mode = "VBlank",
                                                 !.window_drawing = FALSE],
                               frame |-> TRUE,
                               ints |-> Or8(Or8(lycInt,
                                                IF And8(src, StatInterruptSource.VBLANK) # 0
                                                THEN Interrupts.LCD_STAT ELSE 0),
                                            Interrupts.VBLANK),
                               err |-> "none" ]
                        ELSE [ gpu |-> [g EXCEPT !.mode_cycles = mc - HBlankLen,
                                                 !.line = line,
                                                 !.mode = "OamRead"],
                               frame |-> FALSE,
                               ints |-> Or8(lycInt,
                                            IF And8(src, StatInterruptSource.OAM) # 0
                                            THEN Interrupts.LCD_STAT ELSE 0),
                               err |-> "none" ]
               ELSE [ gpu |-> [g EXCEPT !.mode_cycles = mc], frame |-> FALSE, ints |-> 0,
                      err |-> "none" ]
          [] g.mode = "VBlank" ->
               IF mc >= VBlankLineLen
               THEN LET line == g.line + 1
                    IN  IF line > LastLine
                        THEN [ gpu |-> [g EXCEPT !.mode_cycles = mc - VBlankLineLen,
                                                 !.line = 0,
                                                 !.mode = "OamRead"],
                               frame |-> FALSE,
                               ints |-> IF (And8(src, StatInterruptSource.LYC_LY) # 0 /\ g.lyc = 0)
                                           \/ And8(src, StatInterruptSource.OAM) # 0
                                        THEN Interrupts.LCD_STAT ELSE 0,
                               err |-> "none" ]
                        ELSE [ gpu |-> [g EXCEPT !.mode_cycles = mc - VBlankLineLen,
                                                 !.line = line],
                               frame |-> FALSE, ints |-> 0, err |-> "none" ]
               ELSE [ gpu |-> [g EXCEPT !.mode_cycles = mc], frame |-> FALSE, ints |-> 0,
                      err |-> "none" ]
          [] g.mode = "OamRead" ->
               IF mc >= OamReadLen
               THEN [ gpu |-> [g EXCEPT !.mode_cycles = mc - OamReadLen,
                                        !.mode = "VramRead"],
                      frame |-> FALSE, ints |-> 0, err |-> "none" ]
               ELSE [ gpu |-> [g EXCEPT !.mode_cycles = mc], frame |-> FALSE, ints |-> 0,
                      err |-> "none" ]
          [] g.mode = "VramRead" ->
               IF mc >= VramReadLen
               THEN LET g1 == [g EXCEPT !.mode_cycles = mc - VramReadLen,
                                        !.mode = "HBlank"]
                        g2 == IF g1.window_coords[2] = g1.line
                              THEN [g1 EXCEPT !.window_drawing = TRUE,
                                              !.window_line = 0]
                              ELSE g1
                        r == RenderScanline(g2, oc)
                    IN  [ gpu |-> r.gpu,
                          frame |-> FALSE,
                          ints |-> IF And8(src, StatInterruptSource.HBLANK) # 0
                                   THEN Interrupts.LCD_STAT ELSE 0,
                          err |-> r.err ]
               ELSE [ gpu |-> [g EXCEPT !.mode_cycles = mc], frame |-> FALSE, ints |-> 0,
                      err |-> "none" ]

(***************************************************************************)
(* Results of fallible operations (Result<_, MemoryError>, and panics).    *)
(***************************************************************************)
Ok(v) == [err |-> "none", val |-> v]

Err(e) == [err |-> e, val |-> 0]

(* Vec<u8>: a length and the sparse contents *)
Vec(len, data) == [len |-> len, data |-> data]

VecZero(len) == Vec(len, EmptyArr)

(* indexing panics when the index is out of bounds *)
VecGet(v, i) == IF i < v.len THEN Ok(ArrGet(v.data, i)) ELSE Err("panic")

(* std::io::Read::read_to_end appends the bytes read to the buffer *)
VecAppend(v, w) ==
    Vec(v.len + w.len,
        [o \in (DOMAIN v.data) \cup {v.len + i : i \in DOMAIN w.data} |->
            IF o \in DOMAIN v.data THEN v.data[o] ELSE w.data[o - v.len]])

(***************************************************************************)
(* Cartridge (cartridge.rs).                                               *)
(***************************************************************************)
MBC1StateNew ==
    [kind |-> "MBC1", enable_ram |-> FALSE, ram_mode |-> FALSE, bank1 |-> 1, bank2 |-> 0]

MBC3StateNew == [kind |-> "MBC3", bank |-> 1, map_select |-> 0]

MBCNone == [kind |-> "None"]

(* the lower window fixed to bank 0 in either mode *)
MBC1RomOffsetFlat(state) ==
    <<0, 16384 * Or8(U8(state.bank2 * 32), state.bank1)>>

MBC1RomOffset(state) ==
    LET lower == IF state.ram_mode THEN U8(state.bank2 * 32) ELSE 0
        upper == Or8(U8(state.bank2 * 32), state.bank1)
    IN  <<16384 * lower, 16384 * upper>>

MBC1RamOffset(state) == 8192 * (IF state.ram_mode THEN state.bank2 ELSE 0)

HeaderType == 327

HeaderRamSize == 329

RamSizeOf(code) ==
    CASE code = 2 -> 8192
      [] code = 3 -> 4 * 8192
      [] code = 4 -> 16 * 8192
      [] code = 5 -> 8 * 8192
      [] OTHER -> 0

MbcOf(code) ==
    CASE code = 0 -> MBCNone
      [] code \in 1..3 -> MBC1StateNew
      [] code = 19 -> MBC3StateNew
      [] OTHER -> [kind |-> "panic"]

(* Cartridge::new: `buffer` is the ROM image read from the file *)
CartridgeNew(buffer) ==
    [ bytes |-> buffer,
      mbc |-> MbcOf(ArrGet(buffer.data, HeaderType)),
      ram |-> VecZero(RamSizeOf(ArrGet(buffer.data, HeaderRamSize))) ]

(* Cartridge::load: read_to_end(&mut self.ram) *)
CartLoad(c, file) == [c EXCEPT !.ram = VecAppend(c.ram, file)]

(* Cartridge::try_load: load only when the save file exists *)
CartTryLoad(c, f) == IF f.exists THEN CartLoad(c, f.content) ELSE c

(* Cartridge::save: File::create + write_all(&self.ram) *)
CartSave(c) == [exists |-> TRUE, content |-> c.ram]

CartReadRam(c, offset, address) ==
    IF c.ram.len = 0 THEN 255
    ELSE ArrGet(c.ram.data, (offset + (address % 131072)) % c.ram.len)

CartWriteRam(c, offset, address, value) ==
    IF c.ram.len = 0 THEN c
    ELSE [c EXCEPT !.ram.data =
            ArrSet(c.ram.data, (offset + (address % 131072)) % c.ram.len, value)]

(* lower | (address & 0x3fff) with lower a multiple of 0x4000 is a sum *)
CartRead(c, address) ==
    CASE c.mbc.kind = "None" -> VecGet(c.bytes, address)
      [] c.mbc.kind = "MBC1" ->
            IF address <= 16383
            THEN VecGet(c.bytes, (MBC1RomOffset(c.mbc)[1] + (address % 16384)) % c.bytes.len)
            ELSE IF address <= 32767
            THEN VecGet(c.bytes, (MBC1RomOffset(c.mbc)[2] + (address % 16384)) % c.bytes.len)
            ELSE IF address \in 40960..49151 /\ c.mbc.enable_ram
            THEN Ok(CartReadRam(c, MBC1RamOffset(c.mbc), address))
            ELSE Ok(255)
      [] c.mbc.kind = "MBC3" ->
            IF address <= 16383
            THEN VecGet(c.bytes, (address % 16384) % c.bytes.len)
            ELSE IF address <= 32767
            THEN VecGet(c.bytes, (16384 * c.mbc.bank + (address % 16384)) % c.bytes.len)
            ELSE IF address \in 40960..49151 /\ c.mbc.map_select <= 3
            THEN Ok(CartReadRam(c, 8192 * (c.mbc.map_select % 4), address))
            ELSE Ok(255)

(* the low five bits, without the remap of zero *)
MBC1Bank1NoRemap(value) == value % 32

(* state.bank1 = if value & 0x1f == 0 { 1 } else { value & 0x1f } *)
MBC1Bank1(value) == IF value % 32 = 0 THEN 1 ELSE value % 32

(* external RAM written whether enabled or not *)
CartWriteMBC1Ungated(c, address, value) ==
    IF address <= 8191
    THEN [c EXCEPT !.mbc.enable_ram = (value % 16 = 10)]
    ELSE IF address <= 16383
    THEN [c EXCEPT !.mbc.bank1 = MBC1Bank1(value)]
    ELSE IF address <= 24575
    THEN [c EXCEPT !.mbc.bank2 = value % 4]
    ELSE IF address <= 32767
    THEN [c EXCEPT !.mbc.ram_mode = (value % 2 = 1)]
    ELSE IF address \in 40960..49151
    THEN CartWriteRam(c, MBC1RamOffset(c.mbc), address, value)
    ELSE c

CartWriteMBC1(c, address, value) ==
    IF address <= 8191
    THEN [c EXCEPT !.mbc.enable_ram = (value % 16 = 10)]
    ELSE IF address <= 16383
    THEN [c EXCEPT !.mbc.bank1 = MBC1Bank1(value)]
    ELSE IF address <= 24575
    THEN [c EXCEPT !.mbc.bank2 = value % 4]
    ELSE IF address <= 32767
    THEN [c EXCEPT !.mbc.ram_mode = (value % 2 = 1)]
    ELSE IF address \in 40960..49151 /\ c.mbc.enable_ram
    THEN CartWriteRam(c, MBC1RamOffset(c.mbc), address, value)
    ELSE c

CartWriteMBC3(c, address, value) ==
    IF address <= 8191
    THEN c
    ELSE IF address <= 16383
    THEN [c EXCEPT !.mbc.bank = IF value = 0 THEN 1 ELSE value]
    ELSE IF address <= 24575
    THEN [c EXCEPT !.mbc.map_select = value % 16]
    ELSE IF address \in 40960..49151 /\ c.mbc.map_select <= 3
    THEN CartWriteRam(c, 8192 * (c.mbc.map_select % 4), address, value)
    ELSE c

(* Cartridge::write never fails *)
CartWrite(c, address, value) ==
    CASE c.mbc.kind = "None" -> c
      [] c.mbc.kind = "MBC1" -> CartWriteMBC1(c, address, value)
      [] c.mbc.kind = "MBC3" -> CartWriteMBC3(c, address, value)

(***************************************************************************)
(* Timer (timer.rs).                                                       *)
(***************************************************************************)
TimerNew ==
    [ divider |-> 0, counter |-> 0, modulo |-> 255, speed |-> 0, enabled |-> FALSE,
      sub |-> 0, div_sub |-> 0, step_sub |-> 0 ]

TimerDiv(speed) ==
    CASE speed = 0 -> 64
      [] speed = 1 -> 1
      [] speed = 2 -> 4
      [] speed = 3 -> 16

(* a counter that wraps to zero and never raises the interrupt *)
TimerCycleWrapping(t, cycles) ==
    LET sub == t.sub + cycles
    IN  IF sub >= 4
        THEN LET ds == t.div_sub + 1
                 t1 == IF ds >= 16
                       THEN [t EXCEPT !.sub = sub - 4, !.div_sub = ds - 16,
                                      !.divider = U8(t.divider + 1)]
                       ELSE [t EXCEPT !.sub = sub - 4, !.div_sub = ds]
             IN  IF t1.enabled
                 THEN LET ss == t1.step_sub + 1
                          div == TimerDiv(t1.speed)
                      IN  IF ss >= div
                          THEN [ timer |-> [t1 EXCEPT !.step_sub = ss - div,
                                                      !.counter = U8(t1.counter + 1)],
                                 ints |-> 0 ]
                          ELSE [timer |-> [t1 EXCEPT !.step_sub = ss], ints |-> 0]
                 ELSE [timer |-> t1, ints |-> 0]
        ELSE [timer |-> [t EXCEPT !.sub = sub], ints |-> 0]

(* Timer::cycle: returns the new Timer and the new interrupts *)
TimerCycle(t, cycles) ==
    LET sub == t.sub + cycles
    IN  IF sub >= 4
        THEN LET ds == t.div_sub + 1
                 t1 == IF ds >= 16
                       THEN [t EXCEPT !.sub = sub - 4, !.div_sub = ds - 16,
                                      !.divider = U8(t.divider + 1)]
                       ELSE [t EXCEPT !.sub = sub - 4, !.div_sub = ds]
             IN  IF t1.enabled
                 THEN LET ss == t1.step_sub + 1
                          div == TimerDiv(t1.speed)
                      IN  IF ss >= div
                          THEN IF t1.counter + 1 <= 255
                               THEN [ timer |-> [t1 EXCEPT !.step_sub = ss - div,
                                                           !.counter = t1.counter + 1],
                                      ints |-> 0 ]
                               ELSE [ timer |-> [t1 EXCEPT !.step_sub = ss - div,
                                                           !.counter = t1.modulo],
                                      ints |-> Interrupts.TIMER ]
                          ELSE [timer |-> [t1 EXCEPT !.step_sub = ss], ints |-> 0]
                 ELSE [timer |-> t1, ints |-> 0]
        ELSE [timer |-> [t EXCEPT !.sub = sub], ints |-> 0]

TimerControl(t) == Or8(t.speed, IF t.enabled THEN 4 ELSE 0)

TimerSetControl(t, value) ==
    [t EXCEPT !.speed = value % 4, !.enabled = (BitAt(value, 2) # 0)]

(***************************************************************************)
(* Tile cache (gpu.rs update_tile).  tiles is keyed by tile*64 + x + 8*y.  *)
(***************************************************************************)
TileCount == 384

(* a row rebuilt from its low byte alone *)
GpuUpdateTileLow(g, vram_address) ==
    LET a == vram_address - (vram_address % 2)
        tile == a \div 16
        y == (a % 16) \div 2
        base == tile * 64 + 8 * y
        row == {base + x : x \in 0..7}
        px(k) == BitAt(ArrGet(g.vram, a), 7 - (k - base))
    IN  IF tile >= TileCount THEN g
        ELSE [g EXCEPT !.tiles =
                [k \in ((DOMAIN g.tiles) \ row) \cup {r \in row : px(r) # 0} |->
                    IF k \in row THEN px(k) ELSE g.tiles[k]]]

GpuUpdateTile(g, vram_address) ==
    LET a == vram_address - (vram_address % 2)
        tile == a \div 16
        y == (a % 16) \div 2
        base == tile * 64 + 8 * y
        row == {base + x : x \in 0..7}
        px(k) == BitAt(ArrGet(g.vram, a), 7 - (k - base))
                 + 2 * BitAt(ArrGet(g.vram, a + 1), 7 - (k - base))
    IN  IF tile >= TileCount THEN g
        ELSE [g EXCEPT !.tiles =
                [k \in ((DOMAIN g.tiles) \ row) \cup {r \in row : px(r) # 0} |->
                    IF k \in row THEN px(k) ELSE g.tiles[k]]]

(***************************************************************************)
(* Bus (memory/mmu.rs).                                                    *)
(***************************************************************************)
JoypadButtons == {"Up", "Down", "Left", "Right", "Start", "Select", "B", "A"}

ButtonEnabledBit(button) ==
    IF button \in {"Up", "Down", "Left", "Right"} THEN Pow2(4) ELSE Pow2(5)

ButtonBit(button) ==
    CASE button \in {"Right", "A"} -> Pow2(0)
      [] button \in {"Left", "B"} -> Pow2(1)
      [] button \in {"Up", "Select"} -> Pow2(2)
      [] button \in {"Down", "Start"} -> Pow2(3)

(* DMG_BIOS: the 256-byte boot ROM blob handed to Mmu::new.  Its first     *)
(* bytes are LD SP,0xFFFE; XOR A; LD HL,0x9FFF.                            *)
BiosHead == <<49, 254, 255, 175, 33, 255, 159>>

BiosByte(address) == IF address < Len(BiosHead) THEN BiosHead[address + 1] ELSE 0

MmuNew(cart, gpu) ==
    [ use_bios |-> TRUE, cart |-> cart, gpu |-> gpu, timer |-> TimerNew,
      wram |-> EmptyArr, hram |-> EmptyArr,
      interrupts |-> 0, interrupts_enabled |-> 0,
      p1 |-> 15, pressed |-> <<>> ]

PackPalette(palette) ==
    Or8(Or8(palette[1], U8(palette[2] * 4)),
        Or8(U8(palette[3] * 16), U8(palette[4] * 64)))

(* the masked fields left where they are in the byte *)
UnpackPaletteUnshifted(value) ==
    <<And8(value, 3), And8(value, 12), And8(value, 48), And8(value, 192)>>

UnpackPalette(value) ==
    << And8(value, 3), And8(value, 12) \div 4, And8(value, 48) \div 16,
       And8(value, 192) \div 64 >>

RECURSIVE MmuRead(_, _)
MmuRead(m, address) ==
    CASE address <= 255 /\ m.use_bios -> Ok(BiosByte(address))
      [] address <= 32767 /\ ~(address <= 255 /\ m.use_bios) -> CartRead(m.cart, address)
      [] address \in 32768..40959 -> Ok(ArrGet(m.gpu.vram, address - 32768))
      [] address \in 40960..49151 -> CartRead(m.cart, address)
      [] address \in 49152..57343 -> Ok(ArrGet(m.wram, address - 49152))
      [] address \in 57344..65023 -> MmuRead(m, address - 8192)
      [] address \in 65024..65183 -> Ok(ArrGet(m.gpu.oam, address - 65024))
      [] address \in 65184..65279 -> Ok(255)
      [] address = 65280 -> Ok(m.p1)
      [] address = 65284 -> Ok(m.timer.divider)
      [] address = 65285 -> Ok(m.timer.counter)
      [] address = 65286 -> Ok(m.timer.modulo)
      [] address = 65287 -> Ok(TimerControl(m.timer))
      [] address = 65295 -> Ok(m.interrupts)
      [] address \in 65296..65318 -> Ok(0)
      [] address \in 65328..65343 -> Ok(0)
      [] address = 65344 -> Ok(m.gpu.lcd_control)
      [] address = 65345 -> Ok(GpuStat(m.gpu))
      [] address = 65346 -> Ok(m.gpu.scroll_y)
      [] address = 65347 -> Ok(m.gpu.scroll_x)
      [] address = 65348 -> Ok(GpuScanline(m.gpu))
      [] address = 65349 -> Ok(m.gpu.lyc)
      [] address = 65351 -> Ok(PackPalette(m.gpu.bg_palette))
      [] address = 65352 -> Ok(PackPalette(m.gpu.obj_palette[1]))
      [] address = 65353 -> Ok(PackPalette(m.gpu.obj_palette[2]))
      [] address = 65354 -> Ok(m.gpu.window_coords[2])
      [] address = 65355 -> Ok(m.gpu.window_coords[1])
      [] address = 65357 -> Ok(255)
      [] address \in 65408..65534 -> Ok(ArrGet(m.hram, address - 65408))
      [] address = 65535 -> Ok(m.interrupts_enabled)
      [] OTHER -> Ok(255)

(* the 0xff00 arm of Mmu::write: selector bits, then the held buttons *)
RECURSIVE P1ClearHeld(_, _, _)
P1ClearHeld(p1, pressed, i) ==
    IF i > Len(pressed) THEN p1
    ELSE IF And8(p1, ButtonEnabledBit(pressed[i])) # 0
         THEN P1ClearHeld(p1, pressed, i + 1)
         ELSE P1ClearHeld(And8(p1, Not8(ButtonBit(pressed[i]))), pressed, i + 1)

DmaMaxPage == 241

OamSize == 160

(* the transfer without the assertion on the page *)
MmuDmaUnchecked(m, value) ==
    LET Copy(src) ==
            IF \E i \in DOMAIN src : src[i].err # "none"
            THEN [err |-> (CHOOSE e \in {src[i].err : i \in DOMAIN src} : e # "none"),
                  mmu |-> m]
            ELSE [err |-> "none",
                  mmu |-> [m EXCEPT !.gpu.oam =
                             [i \in {j \in DOMAIN src : src[j].val # 0} |-> src[i].val]]]
    IN  Copy([i \in 0..(OamSize - 1) |-> MmuRead(m, (value * 256 + i) % 65536)])

(* the 0xff46 arm of Mmu::write: the source page never overlaps OAM (the   *)
(* assertion admits pages up to 0xf1), so every read sees the old memory.  *)
MmuDma(m, value) ==
    LET Copy(src) ==
            IF \E i \in DOMAIN src : src[i].err # "none"
            THEN [err |-> (CHOOSE e \in {src[i].err : i \in DOMAIN src} : e # "none"),
                  mmu |-> m]
            ELSE [err |-> "none",
                  mmu |-> [m EXCEPT !.gpu.oam =
                             [i \in {j \in DOMAIN src : src[j].val # 0} |-> src[i].val]]]
    IN  IF value > DmaMaxPage THEN [err |-> "panic", mmu |-> m]
        ELSE Copy([i \in 0..(OamSize - 1) |-> MmuRead(m, value * 256 + i)])

(* the overlay following the written value: 0 maps the boot ROM back in *)
BootOverlayFollows(use_bios, value) == value = 0

(* write of 0xff50: if value != 0 { self.use_bios = false } *)
BootOverlay(use_bios, value) == IF value # 0 THEN FALSE ELSE use_bios

Wrote(m) == [err |-> "none", mmu |-> m]

RECURSIVE MmuWrite(_, _, _)
MmuWrite(m, address, value) ==
    CASE address <= 255 /\ m.use_bios -> [err |-> "Illegal", mmu |-> m]
      [] address <= 32767 /\ ~(address <= 255 /\ m.use_bios) ->
            Wrote([m EXCEPT !.cart = CartWrite(m.cart, address, value)])
      [] address \in 32768..40959 ->
            Wrote([m EXCEPT !.gpu =
                     GpuUpdateTile([m.gpu EXCEPT !.vram = ArrSet(m.gpu.vram, address - 32768, value)],
                                   address - 32768)])
      [] address \in 40960..49151 ->
            Wrote([m EXCEPT !.cart = CartWrite(m.cart, address, value)])
      [] address \in 49152..57343 ->
            Wrote([m EXCEPT !.wram = ArrSet(m.wram, address - 49152, value)])
      [] address \in 57344..65023 -> MmuWrite(m, address - 8192, value)
      [] address \in 65024..65183 ->
            Wrote([m EXCEPT !.gpu.oam = ArrSet(m.gpu.oam, address - 65024, value)])
      [] address \in 65184..65279 -> Wrote(m)
      [] address = 65280 ->
            Wrote([m EXCEPT !.p1 = P1ClearHeld(Or8(And8(value, 48), 15), m.pressed, 1)])
      [] address \in 65281..65282 -> Wrote(m)
      [] address = 65284 -> Wrote([m EXCEPT !.timer.divider = 0, !.timer.counter = 0])
      [] address = 65285 -> Wrote([m EXCEPT !.timer.counter = value])
      [] address = 65286 -> Wrote([m EXCEPT !.timer.modulo = value])
      [] address = 65287 -> Wrote([m EXCEPT !.timer = TimerSetControl(m.timer, value)])
      [] address = 65295 -> Wrote([m EXCEPT !.interrupts = IntTruncate(value)])
      [] address \in 65296..65318 -> Wrote(m)
      [] address \in 65328..65343 -> Wrote(m)
      [] address = 65344 -> Wrote([m EXCEPT !.gpu.lcd_control = value])
      [] address = 65345 -> Wrote([m EXCEPT !.gpu = GpuSetStat(m.gpu, value)])
      [] address = 65346 -> Wrote([m EXCEPT !.gpu.scroll_y = value])
      [] address = 65347 -> Wrote([m EXCEPT !.gpu.scroll_x = value])
      [] address = 65348 -> [err |-> "ReadOnly", mmu |-> m]
      [] address = 65349 -> Wrote([m EXCEPT !.gpu.lyc = value])
      [] address = 65350 -> MmuDma(m, value)
      [] address = 65351 -> Wrote([m EXCEPT !.gpu.bg_palette = UnpackPalette(value)])
      [] address = 65352 -> Wrote([m EXCEPT !.gpu.obj_palette[1] = UnpackPalette(value)])
      [] address = 65353 -> Wrote([m EXCEPT !.gpu.obj_palette[2] = UnpackPalette(value)])
      [] address = 65354 -> Wrote([m EXCEPT !.gpu.window_coords[2] = value])
      [] address = 65355 -> Wrote([m EXCEPT !.gpu.window_coords[1] = value])
      [] address = 65357 -> Wrote(m)
      [] address = 65360 -> Wrote([m EXCEPT !.use_bios = BootOverlay(m.use_bios, value)])
      [] address \in 65392..65407 -> Wrote(m)
      [] address \in 65408..65534 ->
            Wrote([m EXCEPT !.hram = ArrSet(m.hram, address - 65408, value)])
      [] address = 65535 -> Wrote([m EXCEPT !.interrupts_enabled = IntTruncate(value)])
      [] OTHER -> Wrote(m)

(***************************************************************************)
(* CPU registers (cpu.rs 83-175).                                          *)
(***************************************************************************)
CpuNew ==
    [ a |-> 0, b |-> 0, c |-> 0, d |-> 0, e |-> 0, h |-> 0, l |-> 0, f |-> 0,
      sp |-> 0, pc |-> 0, interrupt_state |-> "Disabled", halted |-> FALSE ]

CpuRegisters8 == {"A", "B", "C", "D", "E", "H", "L", "F"}

CpuRegisters16 == {"AF", "BC", "DE", "HL", "SP"}

(* CpuRegister::is_16bit *)
RegIs16bit(reg) == reg \in CpuRegisters16

Af(c) == c.a * 256 + c.f

(* set_af that keeps all eight bits of F *)
SetAfUnmasked(c, value) == [c EXCEPT !.a = value \div 256, !.f = value % 256]

SetAf(c, value) == [c EXCEPT !.a = value \div 256, !.f = And8(value % 256, 240)]

Bc(c) == c.b * 256 + c.c

SetBc(c, value) == [c EXCEPT !.b = value \div 256, !.c = value % 256]

De(c) == c.d * 256 + c.e

SetDe(c, value) == [c EXCEPT !.d = value \div 256, !.e = value % 256]

Hl(c) == c.h * 256 + c.l

SetHl(c, value) == [c EXCEPT !.h = value \div 256, !.l = value % 256]

(* CpuFlag::bit *)
FlagBit(flag) ==
    CASE flag = "Zero" -> 128
      [] flag = "Subtraction" -> 64
      [] flag = "HalfCarry" -> 32
      [] flag = "Carry" -> 16

GetFlag(c, flag) == And8(c.f, FlagBit(flag)) # 0

SetFlag(c, flag, value) ==
    [c EXCEPT !.f = IF value THEN Or8(c.f, FlagBit(flag))
                    ELSE And8(c.f, Not8(FlagBit(flag)))]

(* the four flags set in the order Zero, Subtraction, HalfCarry, Carry *)
SetFlags(c, z, n, h, cy) ==
    SetFlag(SetFlag(SetFlag(SetFlag(c, "Zero", z), "Subtraction", n), "HalfCarry", h),
            "Carry", cy)

(***************************************************************************)
(* Execution state threaded through an instruction: the registers, the     *)
(* bus, the error that ended it ("none" while it runs), the value the last *)
(* read produced, and whether the build checks arithmetic overflow         *)
(* (overflow panics in a debug build and wraps in a release build).        *)
(***************************************************************************)
St(c, m, oc) == [cpu |-> c, mmu |-> m, err |-> "none", val |-> 0, oc |-> oc]

Failed(st) == st.err # "none"

Fail(st, e) == IF Failed(st) THEN st ELSE [st EXCEPT !.err = e]

WithVal(st, v) == IF Failed(st) THEN st ELSE [st EXCEPT !.val = v]

WithCpu(st, c) == IF Failed(st) THEN st ELSE [st EXCEPT !.cpu = c]

(* u16 `a + b`: panics on overflow when checked, wraps otherwise; the sum in val *)
CheckedAdd16(st, a, b) ==
    IF a + b > 65535 /\ st.oc THEN Fail(st, "panic") ELSE WithVal(st, U16(a + b))

(* mem.read(address)? *)
MemRead(st, address) ==
    IF Failed(st) THEN st
    ELSE LET Read(r) == IF r.err = "none" THEN [st EXCEPT !.val = r.val]
                        ELSE Fail(st, r.err)
         IN  Read(MmuRead(st.mmu, address))

(* mem.write(address, value)? *)
MemWrite(st, address, value) ==
    IF Failed(st) THEN st
    ELSE LET Written(r) == IF r.err = "none" THEN [st EXCEPT !.mmu = r.mmu]
                           ELSE Fail(st, r.err)
         IN  Written(MmuWrite(st.mmu, address, value))

(* the low byte is read at sp, the high byte at sp + 1 *)
(* the stack pointer moved past the low byte only *)
PopU16Short(st) ==
    LET ReadAtSp(s) == MemRead(s, s.cpu.sp)
        IncSp(s) == WithCpu(s, [s.cpu EXCEPT !.sp = U16(s.cpu.sp + 1)])
        High(lo, hi) == WithVal(hi, hi.val * 256 + lo.val)
        Low(lo) == High(lo, ReadAtSp(IncSp(lo)))
    IN  Low(ReadAtSp(st))

PopU16(st) ==
    LET ReadAtSp(s) == MemRead(s, s.cpu.sp)
        IncSp(s) == WithCpu(s, [s.cpu EXCEPT !.sp = U16(s.cpu.sp + 1)])
        High(lo, hi) == WithVal(IncSp(hi), hi.val * 256 + lo.val)
        Low(lo) == High(lo, ReadAtSp(IncSp(lo)))
    IN  Low(ReadAtSp(st))

(* the high byte is written at sp - 1, the low byte at sp - 2 *)
PushU16(st, value) ==
    LET DecSp(s) == WithCpu(s, [s.cpu EXCEPT !.sp = U16(s.cpu.sp + 65535)])
        WriteAtSp(s, byte) == MemWrite(s, s.cpu.sp, byte)
    IN  WriteAtSp(DecSp(WriteAtSp(DecSp(st), value \div 256)), value % 256)

GetRegU8(st, reg) ==
    CASE reg = "A" -> WithVal(st, st.cpu.a)
      [] reg = "B" -> WithVal(st, st.cpu.b)
      [] reg = "C" -> WithVal(st, st.cpu.c)
      [] reg = "D" -> WithVal(st, st.cpu.d)
      [] reg = "E" -> WithVal(st, st.cpu.e)
      [] reg = "H" -> WithVal(st, st.cpu.h)
      [] reg = "L" -> WithVal(st, st.cpu.l)
      [] reg = "F" -> WithVal(st, st.cpu.f)
      [] OTHER -> Fail(st, "OperandSizeMismatch")

SetRegU8(c, reg, value) ==
    CASE reg = "A" -> [c EXCEPT !.a = value]
      [] reg = "B" -> [c EXCEPT !.b = value]
      [] reg = "C" -> [c EXCEPT !.c = value]
      [] reg = "D" -> [c EXCEPT !.d = value]
      [] reg = "E" -> [c EXCEPT !.e = value]
      [] reg = "H" -> [c EXCEPT !.h = value]
      [] reg = "L" -> [c EXCEPT !.l = value]
      [] reg = "F" -> [c EXCEPT !.f = And8(value, 240)]
      [] reg = "AF" -> SetAf(c, value)
      [] reg = "BC" -> SetBc(c, value)
      [] reg = "DE" -> SetDe(c, value)
      [] reg = "HL" -> SetHl(c, value)
      [] reg = "SP" -> [c EXCEPT !.sp = value]

GetRegU16(c, reg) ==
    CASE reg = "A" -> c.a
      [] reg = "B" -> c.b
      [] reg = "C" -> c.c
      [] reg = "D" -> c.d
      [] reg = "E" -> c.e
      [] reg = "H" -> c.h
      [] reg = "L" -> c.l
      [] reg = "F" -> c.f
      [] reg = "AF" -> Af(c)
      [] reg = "BC" -> Bc(c)
      [] reg = "DE" -> De(c)
      [] reg = "HL" -> Hl(c)
      [] reg = "SP" -> c.sp

SetRegU16(st, reg, value) ==
    CASE reg = "AF" -> WithCpu(st, SetAf(st.cpu, value))
      [] reg = "BC" -> WithCpu(st, SetBc(st.cpu, value))
      [] reg = "DE" -> WithCpu(st, SetDe(st.cpu, value))
      [] reg = "HL" -> WithCpu(st, SetHl(st.cpu, value))
      [] reg = "SP" -> WithCpu(st, [st.cpu EXCEPT !.sp = value])
      [] OTHER -> Fail(st, "OperandSizeMismatch")

(***************************************************************************)
(* InstructionOperand (instruction.rs 62-130): the variant, its register,  *)
(* its fixed offset and its fetched immediate.                             *)
(***************************************************************************)
Operand(k, reg, offset, imm) == [k |-> k, reg |-> reg, offset |-> offset, imm |-> imm]

NoOperand == Operand("None", "A", 0, 0)

(* bytes fetch_instruction reads to build the operand *)
OperandFetch(o) ==
    CASE o.k \in {"Immediate8", "OffsetMemoryLocationImmediate8"} -> 1
      [] o.k \in {"Immediate16", "MemoryLocationImmediate16",
                  "DoubleMemoryLocationImmediate16"} -> 2
      [] OTHER -> 0

(* InstructionOperand::is_16bit *)
OperandIs16bit(o) ==
    CASE o.k = "Register" -> RegIs16bit(o.reg)
      [] o.k \in {"Immediate16", "DoubleMemoryLocationImmediate16"} -> TRUE
      [] OTHER -> FALSE

(* operand cost that charges a memory operand one cycle whatever it is *)
OperandCyclesFlat(o, affect_16bit_reg) ==
    CASE o.k = "Register" -> IF affect_16bit_reg /\ RegIs16bit(o.reg) THEN 1 ELSE 0
      [] o.k = "Immediate16" -> 2
      [] OTHER -> 1

(* InstructionOperand::cycles *)
OperandCycles(o, affect_16bit_reg) ==
    CASE o.k = "Register" -> IF affect_16bit_reg /\ RegIs16bit(o.reg) THEN 1 ELSE 0
      [] o.k = "Immediate8" -> 1
      [] o.k = "Immediate16" -> 2
      [] o.k = "OffsetMemoryLocationRegister" -> 1
      [] o.k \in {"MemoryLocationRegister", "MemoryLocationRegisterDecrement",
                  "MemoryLocationRegisterIncrement"} ->
            IF affect_16bit_reg /\ RegIs16bit(o.reg) THEN 2 ELSE 1
      [] o.k = "OffsetMemoryLocationImmediate8" -> 2
      [] o.k = "MemoryLocationImmediate16" -> 3
      [] o.k = "DoubleMemoryLocationImmediate16" -> 4

(* get_reg_u16(reg)? followed by set_reg_u16(reg, value -/+ 1)? *)
StepReg(st, reg, delta) == SetRegU16(st, reg, U16(GetRegU16(st.cpu, reg) + delta))

(* Cpu::get_u8: the value read is left in val *)
GetU8(st, operand) ==
    CASE operand.k = "Register" -> GetRegU8(st, operand.reg)
      [] operand.k = "Immediate8" -> WithVal(st, operand.imm)
      [] operand.k = "Immediate16" -> Fail(st, "ImmediateSizeMismatch")
      [] operand.k = "OffsetMemoryLocationRegister" ->
            MemRead(st, U16(GetRegU16(st.cpu, operand.reg) + operand.offset))
      [] operand.k = "MemoryLocationRegister" ->
            MemRead(st, GetRegU16(st.cpu, operand.reg))
      [] operand.k = "MemoryLocationRegisterDecrement" ->
            LET Decrement(s1) == WithVal(StepReg(s1, operand.reg, 65535), s1.val)
            IN  Decrement(MemRead(st, GetRegU16(st.cpu, operand.reg)))
      [] operand.k = "MemoryLocationRegisterIncrement" ->
            LET Increment(s1) == WithVal(StepReg(s1, operand.reg, 1), s1.val)
            IN  Increment(MemRead(st, GetRegU16(st.cpu, operand.reg)))
      [] operand.k = "OffsetMemoryLocationImmediate8" ->
            LET a == CheckedAdd16(st, operand.offset, operand.imm)
            IN  MemRead(a, a.val)
      [] operand.k = "MemoryLocationImmediate16" -> MemRead(st, operand.imm)
      [] operand.k = "DoubleMemoryLocationImmediate16" -> Fail(st, "OperandSizeMismatch")

(* Cpu::set_u8 *)
SetU8(st, operand, value) ==
    CASE operand.k = "Register" -> WithCpu(st, SetRegU8(st.cpu, operand.reg, value))
      [] operand.k = "OffsetMemoryLocationRegister" ->
            MemWrite(st, U16(GetRegU16(st.cpu, operand.reg) + operand.offset), value)
      [] operand.k = "MemoryLocationRegister" ->
            MemWrite(st, GetRegU16(st.cpu, operand.reg), value)
      [] operand.k = "MemoryLocationRegisterDecrement" ->
            StepReg(MemWrite(st, GetRegU16(st.cpu, operand.reg), value), operand.reg, 65535)
      [] operand.k = "MemoryLocationRegisterIncrement" ->
            StepReg(MemWrite(st, GetRegU16(st.cpu, operand.reg), value), operand.reg, 1)
      [] operand.k = "OffsetMemoryLocationImmediate8" ->
            LET a == CheckedAdd16(st, operand.offset, operand.imm)
            IN  MemWrite(a, a.val, value)
      [] operand.k = "MemoryLocationImmediate16" -> MemWrite(st, operand.imm, value)
      [] operand.k = "DoubleMemoryLocationImmediate16" -> Fail(st, "OperandSizeMismatch")
      [] operand.k \in {"Immediate8", "Immediate16"} -> Fail(st, "ImmediateWrite")

(* Cpu::get_u16: in the double read the low byte is read first *)
GetU16(st, operand) ==
    CASE operand.k = "Register" -> WithVal(st, GetRegU16(st.cpu, operand.reg))
      [] operand.k \in {"Immediate8", "Immediate16"} -> WithVal(st, operand.imm)
      [] operand.k = "DoubleMemoryLocationImmediate16" ->
            LET Joined(lo, hi) == CheckedAdd16(hi, lo.val, hi.val * 256)
                ReadAt(a) == MemRead(a, a.val)
                High(lo) == Joined(lo, ReadAt(CheckedAdd16(lo, operand.imm, 1)))
            IN  High(MemRead(st, operand.imm))
      [] OTHER -> GetU8(st, operand)

(* Cpu::set_u16 *)
SetU16(st, operand, value) ==
    CASE operand.k = "Register" -> SetRegU16(st, operand.reg, value)
      [] operand.k = "DoubleMemoryLocationImmediate16" ->
            LET WriteAt(a, byte) == MemWrite(a, a.val, byte)
            IN  WriteAt(CheckedAdd16(MemWrite(st, operand.imm, value % 256), operand.imm, 1),
                        value \div 256)
      [] operand.k \in {"Immediate8", "Immediate16"} -> Fail(st, "ImmediateWrite")
      [] OTHER -> Fail(st, "OperandSizeMismatch")

(***************************************************************************)
(* Instruction (instruction.rs 185-226).  One record shape for every       *)
(* variant: its operands, register, bit or vector number, flag, boolean    *)
(* argument, SPOps variant, the number of bytes fetch_instruction reads    *)
(* for an argument of the instruction itself (REL8 1, ABS16 2) and the     *)
(* value fetched.                                                          *)
(***************************************************************************)
Ins(op) ==
    [ op |-> op, to |-> NoOperand, from |-> NoOperand, reg |-> "A", n |-> 0,
      flag |-> "Zero", b |-> FALSE, spop |-> "None", fetch |-> 0, imm |-> 0 ]

(* an undefined opcode decoded as a no-op *)
UndefinedAsNoop == Ins("Noop")

(* the arm `_ => Err(InstructionError::InvalidOpcode { .. })` *)
InvalidOpcode == Ins("InvalidOpcode")

(* SPOps::cycles *)
SPOpsCycles(op) ==
    CASE op = "AddOffset" -> 4
      [] op = "LoadIntoHL" -> 3
      [] op = "LoadFromHL" -> 2

(* Instruction::cycles *)
InstructionCycles(i) ==
    CASE i.op = "Noop" -> 1
      [] i.op = "Stop" -> 0
      [] i.op = "Load" -> 1 + OperandCycles(i.to, FALSE) + OperandCycles(i.from, FALSE)
      [] i.op \in {"And", "Or", "Xor"} -> 1 + OperandCycles(i.from, FALSE)
      [] i.op = "Bit" -> 2 + OperandCycles(i.from, FALSE)
      [] i.op = "Jump" -> IF i.to.k = "Register" THEN 1 ELSE 4
      [] i.op = "JumpIf" -> 3
      [] i.op = "JumpRelative" -> 3
      [] i.op = "JumpRelativeIf" -> 2
      [] i.op \in {"Increment", "Decrement"} -> 1 + OperandCycles(i.to, TRUE)
      [] i.op = "Call" -> 6
      [] i.op = "CallIf" -> 3
      [] i.op = "Compare" -> 1 + OperandCycles(i.to, FALSE)
      [] i.op = "Add8" -> 1 + OperandCycles(i.from, FALSE)
      [] i.op = "Add16" -> 2 + OperandCycles(i.from, FALSE)
      [] i.op = "Subtract" -> 1 + OperandCycles(i.from, FALSE)
      [] i.op = "Push" -> 4
      [] i.op = "Pop" -> 3
      [] i.op \in {"RotateLeftA", "RotateRightA"} -> 1
      [] i.op \in {"RotateLeft", "RotateRight", "ShiftRight", "ShiftLeft"} ->
            2 + OperandCycles(i.to, TRUE)
      [] i.op = "Return" -> 4
      [] i.op = "ReturnIf" -> 2
      [] i.op = "ReturnInterrupt" -> 4
      [] i.op \in {"DisableInterrupts", "EnableInterrupts", "Complement"} -> 1
      [] i.op = "Swap" -> 2 + OperandCycles(i.to, TRUE)
      [] i.op = "Rst" -> 4
      [] i.op = "DAA" -> 1
      [] i.op = "SetBit" -> 2 + OperandCycles(i.to, TRUE)
      [] i.op = "SPOps" -> SPOpsCycles(i.spop)
      [] i.op \in {"SetCarryFlag", "Halt"} -> 1

(* The match of fetch_instruction on the first byte and, in its 0xcb arm,   *)
(* on the second (cpu.rs 887-1397), with the operands and instructions the *)
(* arms of the instr! macro build (cpu.rs 826-885).  Entry opcode + 1 of   *)
(* each table is the arm of that opcode; a byte without an arm falls to    *)
(* `_ => Err(InvalidOpcode)`.                                              *)
Opcodes ==
    LET Register(reg) == Operand("Register", reg, 0, 0)
        Immediate8 == Operand("Immediate8", "A", 0, 0)
        Immediate16 == Operand("Immediate16", "A", 0, 0)
        OffsetMemoryLocationRegister(offset, reg) == Operand("OffsetMemoryLocationRegister", reg, offset, 0)
        MemoryLocationRegister(reg) == Operand("MemoryLocationRegister", reg, 0, 0)
        MemoryLocationRegisterDecrement(reg) == Operand("MemoryLocationRegisterDecrement", reg, 0, 0)
        MemoryLocationRegisterIncrement(reg) == Operand("MemoryLocationRegisterIncrement", reg, 0, 0)
        OffsetMemoryLocationImmediate8(offset) == Operand("OffsetMemoryLocationImmediate8", "A", offset, 0)
        MemoryLocationImmediate16 == Operand("MemoryLocationImmediate16", "A", 0, 0)
        DoubleMemoryLocationImmediate16 == Operand("DoubleMemoryLocationImmediate16", "A", 0, 0)
        Noop == Ins("Noop")
        Stop == Ins("Stop")
        Load(to, from) == [Ins("Load") EXCEPT !.to = to, !.from = from]
        And(from) == [Ins("And") EXCEPT !.from = from]
        Or(from) == [Ins("Or") EXCEPT !.from = from]
        Xor(from) == [Ins("Xor") EXCEPT !.from = from]
        Bit(n, from) == [Ins("Bit") EXCEPT !.n = n, !.from = from]
        Jump(to) == [Ins("Jump") EXCEPT !.to = to]
        JumpIf(flag, expected) == [Ins("JumpIf") EXCEPT !.flag = flag, !.b = expected, !.fetch = 2]
        JumpRelative == [Ins("JumpRelative") EXCEPT !.fetch = 1]
        JumpRelativeIf(flag, expected) ==
            [Ins("JumpRelativeIf") EXCEPT !.flag = flag, !.b = expected, !.fetch = 1]
        Increment(to) == [Ins("Increment") EXCEPT !.to = to]
        Decrement(to) == [Ins("Decrement") EXCEPT !.to = to]
        Call == [Ins("Call") EXCEPT !.fetch = 2]
        CallIf(flag, expected) == [Ins("CallIf") EXCEPT !.flag = flag, !.b = expected, !.fetch = 2]
        Compare(to) == [Ins("Compare") EXCEPT !.to = to]
        Add8(reg, from, use_carry) == [Ins("Add8") EXCEPT !.reg = reg, !.from = from, !.b = use_carry]
        Add16(reg, from) == [Ins("Add16") EXCEPT !.reg = reg, !.from = from]
        Subtract(from, use_carry) == [Ins("Subtract") EXCEPT !.from = from, !.b = use_carry]
        Push(reg) == [Ins("Push") EXCEPT !.reg = reg]
        Pop(reg) == [Ins("Pop") EXCEPT !.reg = reg]
        RotateLeftA(use_carry) == [Ins("RotateLeftA") EXCEPT !.b = use_carry]
        RotateLeft(to, use_carry) == [Ins("RotateLeft") EXCEPT !.to = to, !.b = use_carry]
        RotateRightA(use_carry) == [Ins("RotateRightA") EXCEPT !.b = use_carry]
        RotateRight(to, use_carry) == [Ins("RotateRight") EXCEPT !.to = to, !.b = use_carry]
        ShiftLeft(to) == [Ins("ShiftLeft") EXCEPT !.to = to]
        ShiftRight(to, zero) == [Ins("ShiftRight") EXCEPT !.to = to, !.b = zero]
        Return == Ins("Return")
        ReturnIf(flag, expected) == [Ins("ReturnIf") EXCEPT !.flag = flag, !.b = expected]
        ReturnInterrupt == Ins("ReturnInterrupt")
        DisableInterrupts == Ins("DisableInterrupts")
        EnableInterrupts == Ins("EnableInterrupts")
        Complement == Ins("Complement")
        Swap(to) == [Ins("Swap") EXCEPT !.to = to]
        Rst(n) == [Ins("Rst") EXCEPT !.n = n]
        DAA == Ins("DAA")
        SetBit(n, to, set) == [Ins("SetBit") EXCEPT !.n = n, !.to = to, !.b = set]
        SPOps(op) ==
            [Ins("SPOps") EXCEPT !.spop = op, !.fetch = IF op = "LoadFromHL" THEN 0 ELSE 1]
        SetCarryFlag(toggle) == [Ins("SetCarryFlag") EXCEPT !.b = toggle]
        Halt == Ins("Halt")
    IN  [ primary |-> <<
            Noop,                                                                          (* 0x00 *)
            Load(Register("BC"), Immediate16),                                             (* 0x01 *)
            Load(MemoryLocationRegister("BC"), Register("A")),                             (* 0x02 *)
            Increment(Register("BC")),                                                     (* 0x03 *)
            Increment(Register("B")),                                                      (* 0x04 *)
            Decrement(Register("B")),                                                      (* 0x05 *)
            Load(Register("B"), Immediate8),                                               (* 0x06 *)
            RotateLeftA(FALSE),                                                            (* 0x07 *)
            Load(DoubleMemoryLocationImmediate16, Register("SP")),                         (* 0x08 *)
            Add16("HL", Register("BC")),                                                   (* 0x09 *)
            Load(Register("A"), MemoryLocationRegister("BC")),                             (* 0x0a *)
            Decrement(Register("BC")),                                                     (* 0x0b *)
            Increment(Register("C")),                                                      (* 0x0c *)
            Decrement(Register("C")),                                                      (* 0x0d *)
            Load(Register("C"), Immediate8),                                               (* 0x0e *)
            RotateRightA(FALSE),                                                           (* 0x0f *)
            Stop,                                                                          (* 0x10 *)
            Load(Register("DE"), Immediate16),                                             (* 0x11 *)
            Load(MemoryLocationRegister("DE"), Register("A")),                             (* 0x12 *)
            Increment(Register("DE")),                                                     (* 0x13 *)
            Increment(Register("D")),                                                      (* 0x14 *)
            Decrement(Register("D")),                                                      (* 0x15 *)
            Load(Register("D"), Immediate8),                                               (* 0x16 *)
            RotateLeftA(TRUE),                                                             (* 0x17 *)
            JumpRelative,                                                                  (* 0x18 *)
            Add16("HL", Register("DE")),                                                   (* 0x19 *)
            Load(Register("A"), MemoryLocationRegister("DE")),                             (* 0x1a *)
            Decrement(Register("DE")),                                                     (* 0x1b *)
            Increment(Register("E")),                                                      (* 0x1c *)
            Decrement(Register("E")),                                                      (* 0x1d *)
            Load(Register("E"), Immediate8),                                               (* 0x1e *)
            RotateRightA(TRUE),                                                            (* 0x1f *)
            JumpRelativeIf("Zero", FALSE),                                                 (* 0x20 *)
            Load(Register("HL"), Immediate16),                                             (* 0x21 *)
            Load(MemoryLocationRegisterIncrement("HL"), Register("A")),                    (* 0x22 *)
            Increment(Register("HL")),                                                     (* 0x23 *)
            Increment(Register("H")),                                                      (* 0x24 *)
            Decrement(Register("H")),                                                      (* 0x25 *)
            Load(Register("H"), Immediate8),                                               (* 0x26 *)
            DAA,                                                                           (* 0x27 *)
            JumpRelativeIf("Zero", TRUE),                                                  (* 0x28 *)
            Add16("HL", Register("HL")),                                                   (* 0x29 *)
            Load(Register("A"), MemoryLocationRegisterIncrement("HL")),                    (* 0x2a *)
            Decrement(Register("HL")),                                                     (* 0x2b *)
            Increment(Register("L")),                                                      (* 0x2c *)
            Decrement(Register("L")),                                                      (* 0x2d *)
            Load(Register("L"), Immediate8),                                               (* 0x2e *)
            Complement,                                                                    (* 0x2f *)
            JumpRelativeIf("Carry", FALSE),                                                (* 0x30 *)
            Load(Register("SP"), Immediate16),                                             (* 0x31 *)
            Load(MemoryLocationRegisterDecrement("HL"), Register("A")),                    (* 0x32 *)
            Increment(Register("SP")),                                                     (* 0x33 *)
            Increment(MemoryLocationRegister("HL")),                                       (* 0x34 *)
            Decrement(MemoryLocationRegister("HL")),                                       (* 0x35 *)
            Load(MemoryLocationRegister("HL"), Immediate8),                                (* 0x36 *)
            SetCarryFlag(FALSE),                                                           (* 0x37 *)
            JumpRelativeIf("Carry", TRUE),                                                 (* 0x38 *)
            Add16("HL", Register("SP")),                                                   (* 0x39 *)
            Load(Register("A"), MemoryLocationRegisterDecrement("HL")),                    (* 0x3a *)
            Decrement(Register("SP")),                                                     (* 0x3b *)
            Increment(Register("A")),                                                      (* 0x3c *)
            Decrement(Register("A")),                                                      (* 0x3d *)
            Load(Register("A"), Immediate8),                                               (* 0x3e *)
            SetCarryFlag(TRUE),                                                            (* 0x3f *)
            Load(Register("B"), Register("B")),                                            (* 0x40 *)
            Load(Register("B"), Register("C")),                                            (* 0x41 *)
            Load(Register("B"), Register("D")),                                            (* 0x42 *)
            Load(Register("B"), Register("E")),                                            (* 0x43 *)
            Load(Register("B"), Register("H")),                                            (* 0x44 *)
            Load(Register("B"), Register("L")),                                            (* 0x45 *)
            Load(Register("B"), MemoryLocationRegister("HL")),                             (* 0x46 *)
            Load(Register("B"), Register("A")),                                            (* 0x47 *)
            Load(Register("C"), Register("B")),                                            (* 0x48 *)
            Load(Register("C"), Register("C")),                                            (* 0x49 *)
            Load(Register("C"), Register("D")),                                            (* 0x4a *)
            Load(Register("C"), Register("E")),                                            (* 0x4b *)
            Load(Register("C"), Register("H")),                                            (* 0x4c *)
            Load(Register("C"), Register("L")),                                            (* 0x4d *)
            Load(Register("C"), MemoryLocationRegister("HL")),                             (* 0x4e *)
            Load(Register("C"), Register("A")),                                            (* 0x4f *)
            Load(Register("D"), Register("B")),                                            (* 0x50 *)
            Load(Register("D"), Register("C")),                                            (* 0x51 *)
            Load(Register("D"), Register("D")),                                            (* 0x52 *)
            Load(Register("D"), Register("E")),                                            (* 0x53 *)
            Load(Register("D"), Register("H")),                                            (* 0x54 *)
            Load(Register("D"), Register("L")),                                            (* 0x55 *)
            Load(Register("D"), MemoryLocationRegister("HL")),                             (* 0x56 *)
            Load(Register("D"), Register("A")),                                            (* 0x57 *)
            Load(Register("E"), Register("B")),                                            (* 0x58 *)
            Load(Register("E"), Register("C")),                                            (* 0x59 *)
            Load(Register("E"), Register("D")),                                            (* 0x5a *)
            Load(Register("E"), Register("E")),                                            (* 0x5b *)
            Load(Register("E"), Register("H")),                                            (* 0x5c *)
            Load(Register("E"), Register("L")),                                            (* 0x5d *)
            Load(Register("E"), MemoryLocationRegister("HL")),                             (* 0x5e *)
            Load(Register("E"), Register("A")),                                            (* 0x5f *)
            Load(Register("H"), Register("B")),                                            (* 0x60 *)
            Load(Register("H"), Register("C")),                                            (* 0x61 *)
            Load(Register("H"), Register("D")),                                            (* 0x62 *)
            Load(Register("H"), Register("E")),                                            (* 0x63 *)
            Load(Register("H"), Register("H")),                                            (* 0x64 *)
            Load(Register("H"), Register("L")),                                            (* 0x65 *)
            Load(Register("H"), MemoryLocationRegister("HL")),                             (* 0x66 *)
            Load(Register("H"), Register("A")),                                            (* 0x67 *)
            Load(Register("L"), Register("B")),                                            (* 0x68 *)
            Load(Register("L"), Register("C")),                                            (* 0x69 *)
            Load(Register("L"), Register("D")),                                            (* 0x6a *)
            Load(Register("L"), Register("E")),                                            (* 0x6b *)
            Load(Register("L"), Register("H")),                                            (* 0x6c *)
            Load(Register("L"), Register("L")),                                            (* 0x6d *)
            Load(Register("L"), MemoryLocationRegister("HL")),                             (* 0x6e *)
            Load(Register("L"), Register("A")),                                            (* 0x6f *)
            Load(MemoryLocationRegister("HL"), Register("B")),                             (* 0x70 *)
            Load(MemoryLocationRegister("HL"), Register("C")),                             (* 0x71 *)
            Load(MemoryLocationRegister("HL"), Register("D")),                             (* 0x72 *)
            Load(MemoryLocationRegister("HL"), Register("E")),                             (* 0x73 *)
            Load(MemoryLocationRegister("HL"), Register("H")),                             (* 0x74 *)
            Load(MemoryLocationRegister("HL"), Register("L")),                             (* 0x75 *)
            Halt,                                                                          (* 0x76 *)
            Load(MemoryLocationRegister("HL"), Register("A")),                             (* 0x77 *)
            Load(Register("A"), Register("B")),                                            (* 0x78 *)
            Load(Register("A"), Register("C")),                                            (* 0x79 *)
            Load(Register("A"), Register("D")),                                            (* 0x7a *)
            Load(Register("A"), Register("E")),                                            (* 0x7b *)
            Load(Register("A"), Register("H")),                                            (* 0x7c *)
            Load(Register("A"), Register("L")),                                            (* 0x7d *)
            Load(Register("A"), MemoryLocationRegister("HL")),                             (* 0x7e *)
            Load(Register("A"), Register("A")),                                            (* 0x7f *)
            Add8("A", Register("B"), FALSE),                                               (* 0x80 *)
            Add8("A", Register("C"), FALSE),                                               (* 0x81 *)
            Add8("A", Register("D"), FALSE),                                               (* 0x82 *)
            Add8("A", Register("E"), FALSE),                                               (* 0x83 *)
            Add8("A", Register("H"), FALSE),                                               (* 0x84 *)
            Add8("A", Register("L"), FALSE),                                               (* 0x85 *)
            Add8("A", MemoryLocationRegister("HL"), FALSE),                                (* 0x86 *)
            Add8("A", Register("A"), FALSE),                                               (* 0x87 *)
            Add8("A", Register("B"), TRUE),                                                (* 0x88 *)
            Add8("A", Register("C"), TRUE),                                                (* 0x89 *)
            Add8("A", Register("D"), TRUE),                                                (* 0x8a *)
            Add8("A", Register("E"), TRUE),                                                (* 0x8b *)
            Add8("A", Register("H"), TRUE),                                                (* 0x8c *)
            Add8("A", Register("L"), TRUE),                                                (* 0x8d *)
            Add8("A", MemoryLocationRegister("HL"), TRUE),                                 (* 0x8e *)
            Add8("A", Register("A"), TRUE),                                                (* 0x8f *)
            Subtract(Register("B"), FALSE),                                                (* 0x90 *)
            Subtract(Register("C"), FALSE),                                                (* 0x91 *)
            Subtract(Register("D"), FALSE),                                                (* 0x92 *)
            Subtract(Register("E"), FALSE),                                                (* 0x93 *)
            Subtract(Register("H"), FALSE),                                                (* 0x94 *)
            Subtract(Register("L"), FALSE),                                                (* 0x95 *)
            Subtract(MemoryLocationRegister("HL"), FALSE),                                 (* 0x96 *)
            Subtract(Register("A"), FALSE),                                                (* 0x97 *)
            Subtract(Register("B"), TRUE),                                                 (* 0x98 *)
            Subtract(Register("C"), TRUE),                                                 (* 0x99 *)
            Subtract(Register("D"), TRUE),                                                 (* 0x9a *)
            Subtract(Register("E"), TRUE),                                                 (* 0x9b *)
            Subtract(Register("H"), TRUE),                                                 (* 0x9c *)
            Subtract(Register("L"), TRUE),                                                 (* 0x9d *)
            Subtract(MemoryLocationRegister("HL"), TRUE),                                  (* 0x9e *)
            Subtract(Register("A"), TRUE),                                                 (* 0x9f *)
            And(Register("B")),                                                            (* 0xa0 *)
            And(Register("C")),                                                            (* 0xa1 *)
            And(Register("D")),                                                            (* 0xa2 *)
            And(Register("E")),                                                            (* 0xa3 *)
            And(Register("H")),                                                            (* 0xa4 *)
            And(Register("L")),                                                            (* 0xa5 *)
            And(MemoryLocationRegister("HL")),                                             (* 0xa6 *)
            And(Register("A")),                                                            (* 0xa7 *)
            Xor(Register("B")),                                                            (* 0xa8 *)
            Xor(Register("C")),                                                            (* 0xa9 *)
            Xor(Register("D")),                                                            (* 0xaa *)
            Xor(Register("E")),                                                            (* 0xab *)
            Xor(Register("H")),                                                            (* 0xac *)
            Xor(Register("L")),                                                            (* 0xad *)
            Xor(MemoryLocationRegister("HL")),                                             (* 0xae *)
            Xor(Register("A")),                                                            (* 0xaf *)
            Or(Register("B")),                                                             (* 0xb0 *)
            Or(Register("C")),                                                             (* 0xb1 *)
            Or(Register("D")),                                                             (* 0xb2 *)
            Or(Register("E")),                                                             (* 0xb3 *)
            Or(Register("H")),                                                             (* 0xb4 *)
            Or(Register("L")),                                                             (* 0xb5 *)
            Or(MemoryLocationRegister("HL")),                                              (* 0xb6 *)
            Or(Register("A")),                                                             (* 0xb7 *)
            Compare(Register("B")),                                                        (* 0xb8 *)
            Compare(Register("C")),                                                        (* 0xb9 *)
            Compare(Register("D")),                                                        (* 0xba *)
            Compare(Register("E")),                                                        (* 0xbb *)
            Compare(Register("H")),                                                        (* 0xbc *)
            Compare(Register("L")),                                                        (* 0xbd *)
            Compare(MemoryLocationRegister("HL")),                                         (* 0xbe *)
            Compare(Register("A")),                                                        (* 0xbf *)
            ReturnIf("Zero", FALSE),                                                       (* 0xc0 *)
            Pop("BC"),                                                                     (* 0xc1 *)
            JumpIf("Zero", FALSE),                                                         (* 0xc2 *)
            Jump(Immediate16),                                                             (* 0xc3 *)
            CallIf("Zero", FALSE),                                                         (* 0xc4 *)
            Push("BC"),                                                                    (* 0xc5 *)
            Add8("A", Immediate8, FALSE),                                                  (* 0xc6 *)
            Rst(0),                                                                        (* 0xc7 *)
            ReturnIf("Zero", TRUE),                                                        (* 0xc8 *)
            Return,                                                                        (* 0xc9 *)
            JumpIf("Zero", TRUE),                                                          (* 0xca *)
            InvalidOpcode,                                                                 (* 0xcb: the extended table *)
            CallIf("Zero", TRUE),                                                          (* 0xcc *)
            Call,                                                                          (* 0xcd *)
            Add8("A", Immediate8, TRUE),                                                   (* 0xce *)
            Rst(1),                                                                        (* 0xcf *)
            ReturnIf("Carry", FALSE),                                                      (* 0xd0 *)
            Pop("DE"),                                                                     (* 0xd1 *)
            JumpIf("Carry", FALSE),                                                        (* 0xd2 *)
            InvalidOpcode,                                                                 (* 0xd3: no arm *)
            CallIf("Carry", FALSE),                                                        (* 0xd4 *)
            Push("DE"),                                                                    (* 0xd5 *)
            Subtract(Immediate8, FALSE),                                                   (* 0xd6 *)
            Rst(2),                                                                        (* 0xd7 *)
            ReturnIf("Carry", TRUE),                                                       (* 0xd8 *)
            ReturnInterrupt,                                                               (* 0xd9 *)
            JumpIf("Carry", TRUE),                                                         (* 0xda *)
            InvalidOpcode,                                                                 (* 0xdb: no arm *)
            CallIf("Carry", TRUE),                                                         (* 0xdc *)
            InvalidOpcode,                                                                 (* 0xdd: no arm *)
            Subtract(Immediate8, TRUE),                                                    (* 0xde *)
            Rst(3),                                                                        (* 0xdf *)
            Load(OffsetMemoryLocationImmediate8(65280), Register("A")),                    (* 0xe0 *)
            Pop("HL"),                                                                     (* 0xe1 *)
            Load(OffsetMemoryLocationRegister(65280, "C"), Register("A")),                 (* 0xe2 *)
            InvalidOpcode,                                                                 (* 0xe3: no arm *)
            InvalidOpcode,                                                                 (* 0xe4: no arm *)
            Push("HL"),                                                                    (* 0xe5 *)
            And(Immediate8),                                                               (* 0xe6 *)
            Rst(4),                                                                        (* 0xe7 *)
            SPOps("AddOffset"),                                                            (* 0xe8 *)
            Jump(Register("HL")),                                                          (* 0xe9 *)
            Load(MemoryLocationImmediate16, Register("A")),                                (* 0xea *)
            InvalidOpcode,                                                                 (* 0xeb: no arm *)
            InvalidOpcode,                                                                 (* 0xec: no arm *)
            InvalidOpcode,                                                                 (* 0xed: no arm *)
            Xor(Immediate8),                                                               (* 0xee *)
            Rst(5),                                                                        (* 0xef *)
            Load(Register("A"), OffsetMemoryLocationImmediate8(65280)),                    (* 0xf0 *)
            Pop("AF"),                                                                     (* 0xf1 *)
            Load(Register("A"), OffsetMemoryLocationRegister(65280, "C")),                 (* 0xf2 *)
            DisableInterrupts,                                                             (* 0xf3 *)
            InvalidOpcode,                                                                 (* 0xf4: no arm *)
            Push("AF"),                                                                    (* 0xf5 *)
            Or(Immediate8),                                                                (* 0xf6 *)
            Rst(6),                                                                        (* 0xf7 *)
            SPOps("LoadIntoHL"),                                                           (* 0xf8 *)
            SPOps("LoadFromHL"),                                                           (* 0xf9 *)
            Load(Register("A"), MemoryLocationImmediate16),                                (* 0xfa *)
            EnableInterrupts,                                                              (* 0xfb *)
            InvalidOpcode,                                                                 (* 0xfc: no arm *)
            InvalidOpcode,                                                                 (* 0xfd: no arm *)
            Compare(Immediate8),                                                           (* 0xfe *)
            Rst(7)                                                                         (* 0xff *)
          >>,
          extended |-> <<
            RotateLeft(Register("B"), FALSE),                                              (* 0x00 *)
            RotateLeft(Register("C"), FALSE),                                              (* 0x01 *)
            RotateLeft(Register("D"), FALSE),                                              (* 0x02 *)
            RotateLeft(Register("E"), FALSE),                                              (* 0x03 *)
            RotateLeft(Register("H"), FALSE),                                              (* 0x04 *)
            RotateLeft(Register("L"), FALSE),                                              (* 0x05 *)
            RotateLeft(MemoryLocationRegister("HL"), FALSE),                               (* 0x06 *)
            RotateLeft(Register("A"), FALSE),                                              (* 0x07 *)
            RotateRight(Register("B"), FALSE),                                             (* 0x08 *)
            RotateRight(Register("C"), FALSE),                                             (* 0x09 *)
            RotateRight(Register("D"), FALSE),                                             (* 0x0a *)
            RotateRight(Register("E"), FALSE),                                             (* 0x0b *)
            RotateRight(Register("H"), FALSE),                                             (* 0x0c *)
            RotateRight(Register("L"), FALSE),                                             (* 0x0d *)
            RotateRight(MemoryLocationRegister("HL"), FALSE),                              (* 0x0e *)
            RotateRight(Register("A"), FALSE),                                             (* 0x0f *)
            RotateLeft(Register("B"), TRUE),                                               (* 0x10 *)
            RotateLeft(Register("C"), TRUE),                                               (* 0x11 *)
            RotateLeft(Register("D"), TRUE),                                               (* 0x12 *)
            RotateLeft(Register("E"), TRUE),                                               (* 0x13 *)
            RotateLeft(Register("H"), TRUE),                                               (* 0x14 *)
            RotateLeft(Register("L"), TRUE),                                               (* 0x15 *)
            RotateLeft(MemoryLocationRegister("HL"), TRUE),                                (* 0x16 *)
            RotateLeft(Register("A"), TRUE),                                               (* 0x17 *)
            RotateRight(Register("B"), TRUE),                                              (* 0x18 *)
            RotateRight(Register("C"), TRUE),                                              (* 0x19 *)
            RotateRight(Register("D"), TRUE),                                              (* 0x1a *)
            RotateRight(Register("E"), TRUE),                                              (* 0x1b *)
            RotateRight(Register("H"), TRUE),                                              (* 0x1c *)
            RotateRight(Register("L"), TRUE),                                              (* 0x1d *)
            RotateRight(MemoryLocationRegister("HL"), TRUE),                               (* 0x1e *)
            RotateRight(Register("A"), TRUE),                                              (* 0x1f *)
            ShiftLeft(Register("B")),                                                      (* 0x20 *)
            ShiftLeft(Register("C")),                                                      (* 0x21 *)
            ShiftLeft(Register("D")),                                                      (* 0x22 *)
            ShiftLeft(Register("E")),                                                      (* 0x23 *)
            ShiftLeft(Register("H")),                                                      (* 0x24 *)
            ShiftLeft(Register("L")),                                                      (* 0x25 *)
            ShiftLeft(MemoryLocationRegister("HL")),                                       (* 0x26 *)
            ShiftLeft(Register("A")),                                                      (* 0x27 *)
            ShiftRight(Register("B"), FALSE),                                              (* 0x28 *)
            ShiftRight(Register("C"), FALSE),                                              (* 0x29 *)
            ShiftRight(Register("D"), FALSE),                                              (* 0x2a *)
            ShiftRight(Register("E"), FALSE),                                              (* 0x2b *)
            ShiftRight(Register("H"), FALSE),                                              (* 0x2c *)
            ShiftRight(Register("L"), FALSE),                                              (* 0x2d *)
            ShiftRight(MemoryLocationRegister("HL"), FALSE),                               (* 0x2e *)
            ShiftRight(Register("A"), FALSE),                                              (* 0x2f *)
            Swap(Register("B")),                                                           (* 0x30 *)
            Swap(Register("C")),                                                           (* 0x31 *)
            Swap(Register("D")),                                                           (* 0x32 *)
            Swap(Register("E")),                                                           (* 0x33 *)
            Swap(Register("H")),                                                           (* 0x34 *)
            Swap(Register("L")),                                                           (* 0x35 *)
            Swap(MemoryLocationRegister("HL")),                                            (* 0x36 *)
            Swap(Register("A")),                                                           (* 0x37 *)
            ShiftRight(Register("B"), TRUE),                                               (* 0x38 *)
            ShiftRight(Register("C"), TRUE),                                               (* 0x39 *)
            ShiftRight(Register("D"), TRUE),                                               (* 0x3a *)
            ShiftRight(Register("E"), TRUE),                                               (* 0x3b *)
            ShiftRight(Register("H"), TRUE),                                               (* 0x3c *)
            ShiftRight(Register("L"), TRUE),                                               (* 0x3d *)
            ShiftRight(MemoryLocationRegister("HL"), TRUE),                                (* 0x3e *)
            ShiftRight(Register("A"), TRUE),                                               (* 0x3f *)
            Bit(0, Register("B")),                                                         (* 0x40 *)
            Bit(0, Register("C")),                                                         (* 0x41 *)
            Bit(0, Register("D")),                                                         (* 0x42 *)
            Bit(0, Register("E")),                                                         (* 0x43 *)
            Bit(0, Register("H")),                                                         (* 0x44 *)
            Bit(0, Register("L")),                                                         (* 0x45 *)
            Bit(0, MemoryLocationRegister("HL")),                                          (* 0x46 *)
            Bit(0, Register("A")),                                                         (* 0x47 *)
            Bit(1, Register("B")),                                                         (* 0x48 *)
            Bit(1, Register("C")),                                                         (* 0x49 *)
            Bit(1, Register("D")),                                                         (* 0x4a *)
            Bit(1, Register("E")),                                                         (* 0x4b *)
            Bit(1, Register("H")),                                                         (* 0x4c *)
            Bit(1, Register("L")),                                                         (* 0x4d *)
            Bit(1, MemoryLocationRegister("HL")),                                          (* 0x4e *)
            Bit(1, Register("A")),                                                         (* 0x4f *)
            Bit(2, Register("B")),                                                         (* 0x50 *)
            Bit(2, Register("C")),                                                         (* 0x51 *)
            Bit(2, Register("D")),                                                         (* 0x52 *)
            Bit(2, Register("E")),                                                         (* 0x53 *)
            Bit(2, Register("H")),                                                         (* 0x54 *)
            Bit(2, Register("L")),                                                         (* 0x55 *)
            Bit(2, MemoryLocationRegister("HL")),                                          (* 0x56 *)
            Bit(2, Register("A")),                                                         (* 0x57 *)
            Bit(3, Register("B")),                                                         (* 0x58 *)
            Bit(3, Register("C")),                                                         (* 0x59 *)
            Bit(3, Register("D")),                                                         (* 0x5a *)
            Bit(3, Register("E")),                                                         (* 0x5b *)
            Bit(3, Register("H")),                                                         (* 0x5c *)
            Bit(3, Register("L")),                                                         (* 0x5d *)
            Bit(3, MemoryLocationRegister("HL")),                                          (* 0x5e *)
            Bit(3, Register("A")),                                                         (* 0x5f *)
            Bit(4, Register("B")),                                                         (* 0x60 *)
            Bit(4, Register("C")),                                                         (* 0x61 *)
            Bit(4, Register("D")),                                                         (* 0x62 *)
            Bit(4, Register("E")),                                                         (* 0x63 *)
            Bit(4, Register("H")),                                                         (* 0x64 *)
            Bit(4, Register("L")),                                                         (* 0x65 *)
            Bit(4, MemoryLocationRegister("HL")),                                          (* 0x66 *)
            Bit(4, Register("A")),                                                         (* 0x67 *)
            Bit(5, Register("B")),                                                         (* 0x68 *)
            Bit(5, Register("C")),                                                         (* 0x69 *)
            Bit(5, Register("D")),                                                         (* 0x6a *)
            Bit(5, Register("E")),                                                         (* 0x6b *)
            Bit(5, Register("H")),                                                         (* 0x6c *)
            Bit(5, Register("L")),                                                         (* 0x6d *)
            Bit(5, MemoryLocationRegister("HL")),                                          (* 0x6e *)
            Bit(5, Register("A")),                                                         (* 0x6f *)
            Bit(6, Register("B")),                                                         (* 0x70 *)
            Bit(6, Register("C")),                                                         (* 0x71 *)
            Bit(6, Register("D")),                                                         (* 0x72 *)
            Bit(6, Register("E")),                                                         (* 0x73 *)
            Bit(6, Register("H")),                                                         (* 0x74 *)
            Bit(6, Register("L")),                                                         (* 0x75 *)
            Bit(6, MemoryLocationRegister("HL")),                                          (* 0x76 *)
            Bit(6, Register("A")),                                                         (* 0x77 *)
            Bit(7, Register("B")),                                                         (* 0x78 *)
            Bit(7, Register("C")),                                                         (* 0x79 *)
            Bit(7, Register("D")),                                                         (* 0x7a *)
            Bit(7, Register("E")),                                                         (* 0x7b *)
            Bit(7, Register("H")),                                                         (* 0x7c *)
            Bit(7, Register("L")),                                                         (* 0x7d *)
            Bit(7, MemoryLocationRegister("HL")),                                          (* 0x7e *)
            Bit(7, Register("A")),                                                         (* 0x7f *)
            SetBit(0, Register("B"), FALSE),                                               (* 0x80 *)
            SetBit(0, Register("C"), FALSE),                                               (* 0x81 *)
            SetBit(0, Register("D"), FALSE),                                               (* 0x82 *)
            SetBit(0, Register("E"), FALSE),                                               (* 0x83 *)
            SetBit(0, Register("H"), FALSE),                                               (* 0x84 *)
            SetBit(0, Register("L"), FALSE),                                               (* 0x85 *)
            SetBit(0, MemoryLocationRegister("HL"), FALSE),                                (* 0x86 *)
            SetBit(0, Register("A"), FALSE),                                               (* 0x87 *)
            SetBit(1, Register("B"), FALSE),                                               (* 0x88 *)
            SetBit(1, Register("C"), FALSE),                                               (* 0x89 *)
            SetBit(1, Register("D"), FALSE),                                               (* 0x8a *)
            SetBit(1, Register("E"), FALSE),                                               (* 0x8b *)
            SetBit(1, Register("H"), FALSE),                                               (* 0x8c *)
            SetBit(1, Register("L"), FALSE),                                               (* 0x8d *)
            SetBit(1, MemoryLocationRegister("HL"), FALSE),                                (* 0x8e *)
            SetBit(1, Register("A"), FALSE),                                               (* 0x8f *)
            SetBit(2, Register("B"), FALSE),                                               (* 0x90 *)
            SetBit(2, Register("C"), FALSE),                                               (* 0x91 *)
            SetBit(2, Register("D"), FALSE),                                               (* 0x92 *)
            SetBit(2, Register("E"), FALSE),                                               (* 0x93 *)
            SetBit(2, Register("H"), FALSE),                                               (* 0x94 *)
            SetBit(2, Register("L"), FALSE),                                               (* 0x95 *)
            SetBit(2, MemoryLocationRegister("HL"), FALSE),                                (* 0x96 *)
            SetBit(2, Register("A"), FALSE),                                               (* 0x97 *)
            SetBit(3, Register("B"), FALSE),                                               (* 0x98 *)
            SetBit(3, Register("C"), FALSE),                                               (* 0x99 *)
            SetBit(3, Register("D"), FALSE),                                               (* 0x9a *)
            SetBit(3, Register("E"), FALSE),                                               (* 0x9b *)
            SetBit(3, Register("H"), FALSE),                                               (* 0x9c *)
            SetBit(3, Register("L"), FALSE),                                               (* 0x9d *)
            SetBit(3, MemoryLocationRegister("HL"), FALSE),                                (* 0x9e *)
            SetBit(3, Register("A"), FALSE),                                               (* 0x9f *)
            SetBit(4, Register("B"), FALSE),                                               (* 0xa0 *)
            SetBit(4, Register("C"), FALSE),                                               (* 0xa1 *)
            SetBit(4, Register("D"), FALSE),                                               (* 0xa2 *)
            SetBit(4, Register("E"), FALSE),                                               (* 0xa3 *)
            SetBit(4, Register("H"), FALSE),                                               (* 0xa4 *)
            SetBit(4, Register("L"), FALSE),                                               (* 0xa5 *)
            SetBit(4, MemoryLocationRegister("HL"), FALSE),                                (* 0xa6 *)
            SetBit(4, Register("A"), FALSE),                                               (* 0xa7 *)
            SetBit(5, Register("B"), FALSE),                                               (* 0xa8 *)
            SetBit(5, Register("C"), FALSE),                                               (* 0xa9 *)
            SetBit(5, Register("D"), FALSE),                                               (* 0xaa *)
            SetBit(5, Register("E"), FALSE),                                               (* 0xab *)
            SetBit(5, Register("H"), FALSE),                                               (* 0xac *)
            SetBit(5, Register("L"), FALSE),                                               (* 0xad *)
            SetBit(5, MemoryLocationRegister("HL"), FALSE),                                (* 0xae *)
            SetBit(5, Register("A"), FALSE),                                               (* 0xaf *)
            SetBit(6, Register("B"), FALSE),                                               (* 0xb0 *)
            SetBit(6, Register("C"), FALSE),                                               (* 0xb1 *)
            SetBit(6, Register("D"), FALSE),                                               (* 0xb2 *)
            SetBit(6, Register("E"), FALSE),                                               (* 0xb3 *)
            SetBit(6, Register("H"), FALSE),                                               (* 0xb4 *)
            SetBit(6, Register("L"), FALSE),                                               (* 0xb5 *)
            SetBit(6, MemoryLocationRegister("HL"), FALSE),                                (* 0xb6 *)
            SetBit(6, Register("A"), FALSE),                                               (* 0xb7 *)
            SetBit(7, Register("B"), FALSE),                                               (* 0xb8 *)
            SetBit(7, Register("C"), FALSE),                                               (* 0xb9 *)
            SetBit(7, Register("D"), FALSE),                                               (* 0xba *)
            SetBit(7, Register("E"), FALSE),                                               (* 0xbb *)
            SetBit(7, Register("H"), FALSE),                                               (* 0xbc *)
            SetBit(7, Register("L"), FALSE),                                               (* 0xbd *)
            SetBit(7, MemoryLocationRegister("HL"), FALSE),                                (* 0xbe *)
            SetBit(7, Register("A"), FALSE),                                               (* 0xbf *)
            SetBit(0, Register("B"), TRUE),                                                (* 0xc0 *)
            SetBit(0, Register("C"), TRUE),                                                (* 0xc1 *)
            SetBit(0, Register("D"), TRUE),                                                (* 0xc2 *)
            SetBit(0, Register("E"), TRUE),                                                (* 0xc3 *)
            SetBit(0, Register("H"), TRUE),                                                (* 0xc4 *)
            SetBit(0, Register("L"), TRUE),                                                (* 0xc5 *)
            SetBit(0, MemoryLocationRegister("HL"), TRUE),                                 (* 0xc6 *)
            SetBit(0, Register("A"), TRUE),                                                (* 0xc7 *)
            SetBit(1, Register("B"), TRUE),                                                (* 0xc8 *)
            SetBit(1, Register("C"), TRUE),                                                (* 0xc9 *)
            SetBit(1, Register("D"), TRUE),                                                (* 0xca *)
            SetBit(1, Register("E"), TRUE),                                                (* 0xcb *)
            SetBit(1, Register("H"), TRUE),                                                (* 0xcc *)
            SetBit(1, Register("L"), TRUE),                                                (* 0xcd *)
            SetBit(1, MemoryLocationRegister("HL"), TRUE),                                 (* 0xce *)
            SetBit(1, Register("A"), TRUE),                                                (* 0xcf *)
            SetBit(2, Register("B"), TRUE),                                                (* 0xd0 *)
            SetBit(2, Register("C"), TRUE),                                                (* 0xd1 *)
            SetBit(2, Register("D"), TRUE),                                                (* 0xd2 *)
            SetBit(2, Register("E"), TRUE),                                                (* 0xd3 *)
            SetBit(2, Register("H"), TRUE),                                                (* 0xd4 *)
            SetBit(2, Register("L"), TRUE),                                                (* 0xd5 *)
            SetBit(2, MemoryLocationRegister("HL"), TRUE),                                 (* 0xd6 *)
            SetBit(2, Register("A"), TRUE),                                                (* 0xd7 *)
            SetBit(3, Register("B"), TRUE),                                                (* 0xd8 *)
            SetBit(3, Register("C"), TRUE),                                                (* 0xd9 *)
            SetBit(3, Register("D"), TRUE),                                                (* 0xda *)
            SetBit(3, Register("E"), TRUE),                                                (* 0xdb *)
            SetBit(3, Register("H"), TRUE),                                                (* 0xdc *)
            SetBit(3, Register("L"), TRUE),                                                (* 0xdd *)
            SetBit(3, MemoryLocationRegister("HL"), TRUE),                                 (* 0xde *)
            SetBit(3, Register("A"), TRUE),                                                (* 0xdf *)
            SetBit(4, Register("B"), TRUE),                                                (* 0xe0 *)
            SetBit(4, Register("C"), TRUE),                                                (* 0xe1 *)
            SetBit(4, Register("D"), TRUE),                                                (* 0xe2 *)
            SetBit(4, Register("E"), TRUE),                                                (* 0xe3 *)
            SetBit(4, Register("H"), TRUE),                                                (* 0xe4 *)
            SetBit(4, Register("L"), TRUE),                                                (* 0xe5 *)
            SetBit(4, MemoryLocationRegister("HL"), TRUE),                                 (* 0xe6 *)
            SetBit(4, Register("A"), TRUE),                                                (* 0xe7 *)
            SetBit(5, Register("B"), TRUE),                                                (* 0xe8 *)
            SetBit(5, Register("C"), TRUE),                                                (* 0xe9 *)
            SetBit(5, Register("D"), TRUE),                                                (* 0xea *)
            SetBit(5, Register("E"), TRUE),                                                (* 0xeb *)
            SetBit(5, Register("H"), TRUE),                                                (* 0xec *)
            SetBit(5, Register("L"), TRUE),                                                (* 0xed *)
            SetBit(5, MemoryLocationRegister("HL"), TRUE),                                 (* 0xee *)
            SetBit(5, Register("A"), TRUE),                                                (* 0xef *)
            SetBit(6, Register("B"), TRUE),                                                (* 0xf0 *)
            SetBit(6, Register("C"), TRUE),                                                (* 0xf1 *)
            SetBit(6, Register("D"), TRUE),                                                (* 0xf2 *)
            SetBit(6, Register("E"), TRUE),                                                (* 0xf3 *)
            SetBit(6, Register("H"), TRUE),                                                (* 0xf4 *)
            SetBit(6, Register("L"), TRUE),                                                (* 0xf5 *)
            SetBit(6, MemoryLocationRegister("HL"), TRUE),                                 (* 0xf6 *)
            SetBit(6, Register("A"), TRUE),                                                (* 0xf7 *)
            SetBit(7, Register("B"), TRUE),                                                (* 0xf8 *)
            SetBit(7, Register("C"), TRUE),                                                (* 0xf9 *)
            SetBit(7, Register("D"), TRUE),                                                (* 0xfa *)
            SetBit(7, Register("E"), TRUE),                                                (* 0xfb *)
            SetBit(7, Register("H"), TRUE),                                                (* 0xfc *)
            SetBit(7, Register("L"), TRUE),                                                (* 0xfd *)
            SetBit(7, MemoryLocationRegister("HL"), TRUE),                                 (* 0xfe *)
            SetBit(7, Register("A"), TRUE)                                                 (* 0xff *)
          >> ]

DecodeOpcode(prefixed, opcode) ==
    Opcodes[IF prefixed THEN "extended" ELSE "primary"][opcode + 1]

OPCODE_CYCLES ==
    << 1, 3, 2, 2, 1, 1, 2, 1, 5, 2, 2, 2, 1, 1, 2, 1,
       0, 3, 2, 2, 1, 1, 2, 1, 3, 2, 2, 2, 1, 1, 2, 1,
       2, 3, 2, 2, 1, 1, 2, 1, 2, 2, 2, 2, 1, 1, 2, 1,
       2, 3, 2, 2, 3, 3, 3, 1, 2, 2, 2, 2, 1, 1, 2, 1,
       1, 1, 1, 1, 1, 1, 2, 1, 1, 1, 1, 1, 1, 1, 2, 1,
       1, 1, 1, 1, 1, 1, 2, 1, 1, 1, 1, 1, 1, 1, 2, 1,
       1, 1, 1, 1, 1, 1, 2, 1, 1, 1, 1, 1, 1, 1, 2, 1,
       2, 2, 2, 2, 2, 2, 1, 2, 1, 1, 1, 1, 1, 1, 2, 1,
       1, 1, 1, 1, 1, 1, 2, 1, 1, 1, 1, 1, 1, 1, 2, 1,
       1, 1, 1, 1, 1, 1, 2, 1, 1, 1, 1, 1, 1, 1, 2, 1,
       1, 1, 1, 1, 1, 1, 2, 1, 1, 1, 1, 1, 1, 1, 2, 1,
       1, 1, 1, 1, 1, 1, 2, 1, 1, 1, 1, 1, 1, 1, 2, 1,
       2, 3, 3, 4, 3, 4, 2, 4, 2, 4, 3, 0, 3, 6, 2, 4,
       2, 3, 3, 0, 3, 4, 2, 4, 2, 4, 3, 0, 3, 0, 2, 4,
       3, 3, 2, 0, 0, 4, 2, 4, 4, 1, 4, 0, 0, 0, 2, 4,
       3, 3, 2, 1, 0, 4, 2, 4, 3, 2, 4, 1, 0, 0, 2, 4 >>

EXTENDED_OPCODE_CYCLES ==
    << 2, 2, 2, 2, 2, 2, 4, 2, 2, 2, 2, 2, 2, 2, 4, 2,
       2, 2, 2, 2, 2, 2, 4, 2, 2, 2, 2, 2, 2, 2, 4, 2,
       2, 2, 2, 2, 2, 2, 4, 2, 2, 2, 2, 2, 2, 2, 4, 2,
       2, 2, 2, 2, 2, 2, 4, 2, 2, 2, 2, 2, 2, 2, 4, 2,
       2, 2, 2, 2, 2, 2, 3, 2, 2, 2, 2, 2, 2, 2, 3, 2,
       2, 2, 2, 2, 2, 2, 3, 2, 2, 2, 2, 2, 2, 2, 3, 2,
       2, 2, 2, 2, 2, 2, 3, 2, 2, 2, 2, 2, 2, 2, 3, 2,
       2, 2, 2, 2, 2, 2, 3, 2, 2, 2, 2, 2, 2, 2, 3, 2,
       2, 2, 2, 2, 2, 2, 4, 2, 2, 2, 2, 2, 2, 2, 4, 2,
       2, 2, 2, 2, 2, 2, 4, 2, 2, 2, 2, 2, 2, 2, 4, 2,
       2, 2, 2, 2, 2, 2, 4, 2, 2, 2, 2, 2, 2, 2, 4, 2,
       2, 2, 2, 2, 2, 2, 4, 2, 2, 2, 2, 2, 2, 2, 4, 2,
       2, 2, 2, 2, 2, 2, 4, 2, 2, 2, 2, 2, 2, 2, 4, 2,
       2, 2, 2, 2, 2, 2, 4, 2, 2, 2, 2, 2, 2, 2, 4, 2,
       2, 2, 2, 2, 2, 2, 4, 2, 2, 2, 2, 2, 2, 2, 4, 2,
       2, 2, 2, 2, 2, 2, 4, 2, 2, 2, 2, 2, 2, 2, 4, 2 >>

(* `x as i8` of a byte *)
AsI8(x) == IF x >= 128 THEN x - 256 ELSE x

(* `x as u16` of an i8 or i16: two's complement *)
AsU16(x) == (x + 65536) % 65536

FetchU8(st) ==
    LET Advance(s) == WithCpu(s, [s.cpu EXCEPT !.pc = U16(s.cpu.pc + 1)])
    IN  Advance(MemRead(st, st.cpu.pc))

(* the byte at pc + 1 is read first *)
FetchU16(st) ==
    LET Advance(hi, lo) == WithVal(WithCpu(lo, [lo.cpu EXCEPT !.pc = U16(lo.cpu.pc + 2)]),
                                   hi.val * 256 + lo.val)
        Low(hi) == Advance(hi, MemRead(hi, hi.cpu.pc))
        High(a) == Low(MemRead(a, a.val))
    IN  High(CheckedAdd16(st, st.cpu.pc, 1))

(* the instruction with the argument it fetched put in place *)
WithImmediate(i, value) ==
    IF OperandFetch(i.to) > 0 THEN [i EXCEPT !.to.imm = value]
    ELSE IF OperandFetch(i.from) > 0 THEN [i EXCEPT !.from.imm = value]
    ELSE IF i.op \in {"JumpRelative", "JumpRelativeIf", "SPOps"}
    THEN [i EXCEPT !.imm = AsI8(value)]
    ELSE [i EXCEPT !.imm = value]

(* Cpu::fetch_instruction: the execution state after the fetch and the     *)
(* instruction decoded; an undefined opcode fails with the byte in val     *)
FetchInstruction(st) ==
    LET Size(shape) == OperandFetch(shape.to) + OperandFetch(shape.from) + shape.fetch
        Fetched(shape, s3) ==
            [st |-> s3,
             instruction |-> IF Size(shape) = 0 \/ Failed(s3) THEN shape
                             ELSE WithImmediate(shape, s3.val)]
        Decoded(s2, shape) ==
            IF shape.op = "InvalidOpcode"
            THEN [st |-> [s2 EXCEPT !.err = "InvalidOpcode"], instruction |-> shape]
            ELSE Fetched(shape, CASE Size(shape) = 0 -> s2
                                  [] Size(shape) = 1 -> FetchU8(s2)
                                  [] Size(shape) = 2 -> FetchU16(s2))
        Opened(prefixed, s2) ==
            IF Failed(s2) THEN [st |-> s2, instruction |-> InvalidOpcode]
            ELSE Decoded(s2, DecodeOpcode(prefixed, s2.val))
        First(s1) == Opened(s1.val = 203, IF s1.val = 203 THEN FetchU8(s1) ELSE s1)
    IN  First(FetchU8(st))

(***************************************************************************)
(* Cpu::exec_instruction (cpu.rs 421-783) and its helpers.                 *)
(***************************************************************************)
(* Cpu::subtract_a: the flags set, and the difference *)
(* the half carry taken from the nibble of the result *)
SubtractANibble(c, value, carry) ==
    LET cy == IF carry THEN 1 ELSE 0
        result == U8(c.a + 512 - value - cy)
    IN  [ cpu |-> SetFlags(c, result = 0, TRUE, result % 16 > c.a % 16, c.a < value + cy),
          result |-> result ]

SubtractA(c, value, carry) ==
    LET cy == IF carry THEN 1 ELSE 0
        result == U8(c.a + 512 - value - cy)
    IN  [ cpu |-> SetFlags(c, result = 0, TRUE,
                           And8(U8((c.a % 16) + 512 - (value % 16) - cy), 16) # 0,
                           c.a < value + cy),
          result |-> result ]

(* Cpu::offset_sp: the flags set, and sp + offset *)
OffsetSp(c, offset) ==
    LET result == U16(c.sp + AsU16(offset))
        x == BitXorN(BitXorN(c.sp, result, 16), AsU16(offset), 16)
    IN  [ cpu |-> SetFlags(c, FALSE, FALSE, BitAt(x, 4) # 0, BitAt(x, 8) # 0),
          result |-> result ]

(* the Zero, Subtraction and HalfCarry flags, Carry left as it is *)
SetZNH(c, z, n, h) ==
    SetFlag(SetFlag(SetFlag(c, "Zero", z), "Subtraction", n), "HalfCarry", h)

ExecLoad(s, i) ==
    LET Store16(g) == SetU16(g, i.to, g.val)
        Store8(g) == SetU8(g, i.to, g.val)
    IN  IF OperandIs16bit(i.to) THEN Store16(GetU16(s, i.from))
        ELSE Store8(GetU8(s, i.from))

(* And, Or, Xor *)
ExecLogic(s, i) ==
    LET Result(a, value) == CASE i.op = "And" -> And8(a, value)
                              [] i.op = "Or" -> Or8(a, value)
                              [] i.op = "Xor" -> Xor8(a, value)
        Store(g, a) ==
            WithCpu(g, SetFlags([g.cpu EXCEPT !.a = a], a = 0, FALSE, i.op = "And", FALSE))
        Apply(g) == Store(g, Result(g.cpu.a, g.val))
    IN  Apply(GetU8(s, i.from))

ExecBit(s, i) ==
    LET Test(g) == WithCpu(g, SetZNH(g.cpu, BitAt(g.val, i.n) = 0, FALSE, TRUE))
    IN  Test(GetU8(s, i.from))

(* Increment and Decrement *)
ExecStep(s, i) ==
    LET Step16(g) ==
            SetU16(g, i.to, U16(g.val + (IF i.op = "Increment" THEN 1 ELSE 65535)))
        Flags(w, ov, val) ==
            WithCpu(w, IF i.op = "Increment"
                       THEN SetZNH(w.cpu, val = 0, FALSE, And8(ov, 16) # And8(val, 16))
                       ELSE SetZNH(w.cpu, val = 0, TRUE, ov % 16 = 0))
        Store(g, val) == Flags(SetU8(g, i.to, val), g.val, val)
        Step8(g) == Store(g, U8(g.val + (IF i.op = "Increment" THEN 1 ELSE 255)))
    IN  IF OperandIs16bit(i.to) THEN Step16(GetU16(s, i.to))
        ELSE Step8(GetU8(s, i.to))

(* push_u16(mem, self.pc)? ; self.pc = address *)
ExecCall(s, address) ==
    LET JumpTo(p) == WithCpu(p, [p.cpu EXCEPT !.pc = address])
    IN  JumpTo(PushU16(s, s.cpu.pc))

(* self.pc = self.pop_u16(mem)? *)
ExecReturn(s) ==
    LET JumpBack(p) == WithCpu(p, [p.cpu EXCEPT !.pc = p.val])
    IN  JumpBack(PopU16(s))

(* RotateLeft, RotateRight, ShiftLeft, ShiftRight and Swap on an operand *)
ExecShift(s, i) ==
    LET Value(previous, carry) ==
            CASE i.op = "RotateLeft" ->
                    Or8(U8(previous * 2), IF i.b THEN carry ELSE previous \div 128)
              [] i.op = "RotateRight" ->
                    Or8(previous \div 2, 128 * (IF i.b THEN carry ELSE previous % 2))
              [] i.op = "ShiftRight" ->
                    Or8(previous \div 2, IF i.b THEN 0 ELSE And8(previous, 128))
              [] i.op = "ShiftLeft" -> U8(previous * 2)
              [] i.op = "Swap" -> Or8(previous \div 16, U8((previous % 16) * 16))
        Out(previous) == IF i.op \in {"RotateLeft", "ShiftLeft"} THEN previous >= 128
                         ELSE previous % 2 = 1
        CarryOut(g) == IF i.op = "Swap" THEN g.cpu
                       ELSE SetFlag(g.cpu, "Carry", Out(g.val))
        Flags(w, value) ==
            WithCpu(w, IF i.op = "Swap" THEN SetFlags(w.cpu, value = 0, FALSE, FALSE, FALSE)
                       ELSE SetZNH(w.cpu, value = 0, FALSE, FALSE))
        Store(g, value) == Flags(SetU8(WithCpu(g, CarryOut(g)), i.to, value), value)
        Shift(g) == Store(g, Value(g.val, IF GetFlag(g.cpu, "Carry") THEN 1 ELSE 0))
    IN  Shift(GetU8(s, i.to))

(* RotateLeftA and RotateRightA *)
ExecRotateA(s, i) ==
    LET c == s.cpu
        carry == IF GetFlag(c, "Carry") THEN 1 ELSE 0
        a == IF i.op = "RotateLeftA"
             THEN Or8(U8(c.a * 2), IF i.b THEN carry ELSE c.a \div 128)
             ELSE Or8(c.a \div 2, 128 * (IF i.b THEN carry ELSE c.a % 2))
        out == IF i.op = "RotateLeftA" THEN c.a >= 128 ELSE c.a % 2 = 1
    IN  WithCpu(s, SetZNH([SetFlag(c, "Carry", out) EXCEPT !.a = a], FALSE, FALSE, FALSE))

(* Compare and Subtract *)
ExecSubtract(s, i) ==
    LET Store(g, r) ==
            WithCpu(g, IF i.op = "Compare" THEN r.cpu ELSE [r.cpu EXCEPT !.a = r.result])
        Apply(g) ==
            Store(g, SubtractA(g.cpu, g.val,
                               i.op = "Subtract" /\ i.b /\ GetFlag(g.cpu, "Carry")))
    IN  Apply(GetU8(s, IF i.op = "Compare" THEN i.to ELSE i.from))

ExecAdd8(s, i) ==
    LET carry == IF i.b /\ GetFlag(s.cpu, "Carry") THEN 1 ELSE 0
        Store(g, value, right, result) ==
            WithCpu(g, SetFlags(SetRegU8(g.cpu, i.reg, result), result = 0, FALSE,
                                (value % 16) + (right % 16) + carry > 15,
                                result # value + right + carry))
        Sum(v, g) == Store(g, v.val, g.val, U8(v.val + g.val + carry))
        Right(v) == Sum(v, GetU8(v, i.from))
    IN  Right(GetRegU8(s, i.reg))

ExecAdd16(s, i) ==
    LET value == GetRegU16(s.cpu, i.reg)
        Flags(w, right, result) ==
            WithCpu(w, SetFlag(SetFlag(SetFlag(w.cpu, "Subtraction", FALSE),
                                       "HalfCarry", (value % 4096) + (right % 4096) > 4095),
                               "Carry", result < value))
        Store(g, result) == Flags(SetRegU16(g, i.reg, result), g.val, result)
        Sum(g) == Store(g, U16(value + g.val))
    IN  Sum(GetU16(s, i.from))

ExecDAA(s) ==
    LET c == s.cpu
        n == GetFlag(c, "Subtraction")
        low == GetFlag(c, "HalfCarry") \/ (~n /\ c.a % 16 > 9)
        high == GetFlag(c, "Carry") \/ (~n /\ c.a > 153)
        correction == (IF low THEN 6 ELSE 0) + (IF high THEN 96 ELSE 0)
        c1 == IF high THEN SetFlag(c, "Carry", TRUE) ELSE c
        a == U8(c.a + (IF n THEN U8(256 - correction) ELSE correction))
    IN  WithCpu(s, SetFlag(SetFlag([c1 EXCEPT !.a = a], "Zero", a = 0), "HalfCarry", FALSE))

ExecSetBit(s, i) ==
    LET Store(g) == SetU8(g, i.to, WithBit(g.val, i.n, IF i.b THEN 1 ELSE 0))
    IN  Store(GetU8(s, i.to))

ExecSPOps(s, i) ==
    LET r == OffsetSp(s.cpu, i.imm)
    IN  CASE i.spop = "AddOffset" -> WithCpu(s, [r.cpu EXCEPT !.sp = r.result])
          [] i.spop = "LoadIntoHL" -> WithCpu(s, SetHl(r.cpu, r.result))
          [] i.spop = "LoadFromHL" -> WithCpu(s, [s.cpu EXCEPT !.sp = Hl(s.cpu)])

ExecSetCarryFlag(s, i) ==
    LET c == s.cpu
        c1 == SetFlag(c, "Carry", IF i.b THEN ~GetFlag(c, "Carry") ELSE TRUE)
    IN  WithCpu(s, SetFlag(SetFlag(c1, "Subtraction", FALSE), "HalfCarry", FALSE))

(* a pending enable that the next instruction does not carry out *)
InterruptStateKept(state) == state

(* if let ShouldEnable = self.interrupt_state { self.interrupt_state = Enabled } *)
InterruptStateAtExec(state) == IF state = "ShouldEnable" THEN "Enabled" ELSE state

(* whether a conditional instruction takes its branch, and what that costs *)
Taken(c, i) ==
    i.op \in {"JumpIf", "JumpRelativeIf", "CallIf", "ReturnIf"} /\ GetFlag(c, i.flag) = i.b

(* one extra cycle for every taken branch *)
TakenCyclesFlat(i) == 1

TakenCycles(i) == IF i.op \in {"JumpIf", "JumpRelativeIf"} THEN 1 ELSE 3

ExecInstruction(st, i) ==
    LET s == WithCpu(st, [st.cpu EXCEPT !.interrupt_state = InterruptStateAtExec(@)])
        c == s.cpu
        taken == Taken(c, i)
        JumpTo(g) == WithCpu(g, [g.cpu EXCEPT !.pc = g.val])
        Popped(p) == SetRegU16(p, i.reg, p.val)
        r == CASE i.op = "Noop" -> s
               [] i.op = "Stop" -> Fail(s, "panic")
               [] i.op = "Load" -> ExecLoad(s, i)
               [] i.op \in {"And", "Or", "Xor"} -> ExecLogic(s, i)
               [] i.op = "Bit" -> ExecBit(s, i)
               [] i.op = "Jump" -> JumpTo(GetU16(s, i.to))
               [] i.op = "JumpIf" -> IF taken THEN WithCpu(s, [c EXCEPT !.pc = i.imm]) ELSE s
               [] i.op = "JumpRelative" ->
                     WithCpu(s, [c EXCEPT !.pc = U16(c.pc + AsU16(i.imm))])
               [] i.op = "JumpRelativeIf" ->
                     IF taken THEN WithCpu(s, [c EXCEPT !.pc = U16(c.pc + AsU16(i.imm))])
                     ELSE s
               [] i.op \in {"Increment", "Decrement"} -> ExecStep(s, i)
               [] i.op = "Call" -> ExecCall(s, i.imm)
               [] i.op = "CallIf" -> IF taken THEN ExecCall(s, i.imm) ELSE s
               [] i.op = "Push" -> PushU16(s, GetRegU16(c, i.reg))
               [] i.op = "Pop" -> Popped(PopU16(s))
               [] i.op \in {"RotateLeft", "RotateRight", "ShiftLeft", "ShiftRight", "Swap"} ->
                     ExecShift(s, i)
               [] i.op \in {"RotateLeftA", "RotateRightA"} -> ExecRotateA(s, i)
               [] i.op = "Return" -> ExecReturn(s)
               [] i.op = "ReturnIf" -> IF taken THEN ExecReturn(s) ELSE s
               [] i.op \in {"Compare", "Subtract"} -> ExecSubtract(s, i)
               [] i.op = "ReturnInterrupt" ->
                     ExecReturn(WithCpu(s, [c EXCEPT !.interrupt_state = "Enabled"]))
               [] i.op = "Add8" -> ExecAdd8(s, i)
               [] i.op = "Add16" -> ExecAdd16(s, i)
               [] i.op = "DisableInterrupts" ->
                     WithCpu(s, [c EXCEPT !.interrupt_state = "Disabled"])
               [] i.op = "EnableInterrupts" ->
                     WithCpu(s, [c EXCEPT !.interrupt_state = "ShouldEnable"])
               [] i.op = "Complement" ->
                     WithCpu(s, SetFlag(SetFlag([c EXCEPT !.a = Not8(c.a)],
                                                "Subtraction", TRUE), "HalfCarry", TRUE))
               [] i.op = "Rst" -> ExecCall(s, i.n * 8)
               [] i.op = "DAA" -> ExecDAA(s)
               [] i.op = "SetBit" -> ExecSetBit(s, i)
               [] i.op = "SPOps" -> ExecSPOps(s, i)
               [] i.op = "SetCarryFlag" -> ExecSetCarryFlag(s, i)
               [] i.op = "Halt" -> WithCpu(s, [c EXCEPT !.halted = TRUE])
    IN  [st |-> r, cycles |-> InstructionCycles(i) + (IF taken THEN TakenCycles(i) ELSE 0)]

(* Cpu::exec_next_instruction *)
ExecNextInstruction(st) ==
    LET Exec(f) == IF Failed(f.st) THEN [st |-> f.st, cycles |-> 0]
                   ELSE ExecInstruction(f.st, f.instruction)
    IN  Exec(FetchInstruction(st))

(***************************************************************************)
(* Interrupt dispatch (cpu.rs 1412-1449) and Mmu::step (mmu.rs 83-119).    *)
(***************************************************************************)
(* the priority order reversed: JOYPAD first *)
LastInterrupt(interrupts) ==
    CASE IntContains(interrupts, Interrupts.JOYPAD) -> Interrupts.JOYPAD
      [] IntContains(interrupts, Interrupts.SERIAL) -> Interrupts.SERIAL
      [] IntContains(interrupts, Interrupts.TIMER) -> Interrupts.TIMER
      [] IntContains(interrupts, Interrupts.LCD_STAT) -> Interrupts.LCD_STAT
      [] IntContains(interrupts, Interrupts.VBLANK) -> Interrupts.VBLANK
      [] OTHER -> 0

(* the interrupt process_interrupts picks: VBLANK before LCD_STAT before   *)
(* TIMER before SERIAL before JOYPAD; 0 when none is in the set            *)
FirstInterrupt(interrupts) ==
    CASE IntContains(interrupts, Interrupts.VBLANK) -> Interrupts.VBLANK
      [] IntContains(interrupts, Interrupts.LCD_STAT) -> Interrupts.LCD_STAT
      [] IntContains(interrupts, Interrupts.TIMER) -> Interrupts.TIMER
      [] IntContains(interrupts, Interrupts.SERIAL) -> Interrupts.SERIAL
      [] IntContains(interrupts, Interrupts.JOYPAD) -> Interrupts.JOYPAD
      [] OTHER -> 0

(* the handler address of the interrupt picked *)
InterruptVector(interrupt) ==
    CASE interrupt = Interrupts.VBLANK -> 64
      [] interrupt = Interrupts.LCD_STAT -> 72
      [] interrupt = Interrupts.TIMER -> 80
      [] interrupt = Interrupts.SERIAL -> 88
      [] interrupt = Interrupts.JOYPAD -> 96

DispatchCycles == 5

(* a dispatch that does not look at the interrupt master enable *)
ProcessInterruptsAnyIme(st, interrupts) ==
    LET picked == FirstInterrupt(interrupts)
        Dispatch(p) ==
            [ st |-> IF Failed(p) THEN [p EXCEPT !.err = "panic"]
                     ELSE WithCpu(p, [p.cpu EXCEPT !.pc = InterruptVector(picked),
                                                   !.interrupt_state = "Disabled"]),
              cycles |-> DispatchCycles, handled |-> picked ]
    IN  IF picked # 0
        THEN Dispatch(PushU16(st, st.cpu.pc))
        ELSE [st |-> st, cycles |-> 0, handled |-> 0]

(* Cpu::process_interrupts: a failed push panics (unwrap) *)
ProcessInterrupts(st, interrupts) ==
    LET picked == FirstInterrupt(interrupts)
        Dispatch(p) ==
            [ st |-> IF Failed(p) THEN [p EXCEPT !.err = "panic"]
                     ELSE WithCpu(p, [p.cpu EXCEPT !.pc = InterruptVector(picked),
                                                   !.interrupt_state = "Disabled"]),
              cycles |-> DispatchCycles, handled |-> picked ]
    IN  IF st.cpu.interrupt_state = "Enabled" /\ picked # 0
        THEN Dispatch(PushU16(st, st.cpu.pc))
        ELSE [st |-> st, cycles |-> 0, handled |-> 0]

(* a halted step that lets no time pass *)
HaltedCyclesNone == 4 - 4

HaltedCycles == 4

(* both units given the same number of cycles *)
TickEqual(m, cycles, oc) ==
    LET Ticked(g, t) ==
            [ mmu |-> [m EXCEPT !.gpu = g.gpu, !.timer = t.timer,
                                !.interrupts =
                                    IntInsert(IntInsert(m.interrupts, g.ints), t.ints)],
              frame |-> g.frame, err |-> g.err ]
    IN  Ticked(GpuCycle(m.gpu, cycles, oc), TimerCycle(m.timer, cycles))

(* self.gpu.cycle(4 * cycles) and self.timer.cycle(cycles), each followed  *)
(* by self.interrupts.insert(new_interrupts): the bus and frame_done       *)
Tick(m, cycles, oc) ==
    LET Ticked(g, t) ==
            [ mmu |-> [m EXCEPT !.gpu = g.gpu, !.timer = t.timer,
                                !.interrupts =
                                    IntInsert(IntInsert(m.interrupts, g.ints), t.ints)],
              frame |-> g.frame, err |-> g.err ]
    IN  Ticked(GpuCycle(m.gpu, 4 * cycles, oc), TimerCycle(m.timer, cycles))

(* what dispatch sees and leaves: PC, SP, IME, IF *)
DispatchView(c, m) ==
    [pc |-> c.pc, sp |-> c.sp, ime |-> c.interrupt_state, pending |-> m.interrupts]

(* Mmu::step.  Beside the registers, the bus, the returned frame_done and  *)
(* the error that ended the step in a panic ("none" otherwise) the result  *)
(* records what the step did: the instruction's M-cycles, the state before *)
(* process_interrupts, the state after self.interrupts.remove(handled),    *)
(* the M-cycles and the interrupt process_interrupts returned, the         *)
(* T-cycles and M-cycles handed to the PPU and the Timer, and the bus      *)
(* after the first pair of ticks.                                          *)
MmuStep(c, m, oc) ==
    LET to_process(t1) == And8(t1.mmu.interrupts, t1.mmu.interrupts_enabled)
        Woken(e, t1) == IF to_process(t1) # 0 THEN [e.st.cpu EXCEPT !.halted = FALSE]
                        ELSE e.st.cpu
        Handled(d) ==
            [d.st.mmu EXCEPT !.interrupts = IntRemove(d.st.mmu.interrupts, d.handled)]
        Result(e, t1, d, t2) ==
            [ cpu |-> d.st.cpu, mmu |-> t2.mmu, frame |-> t1.frame \/ t2.frame,
              err |-> IF Failed(e.st) THEN e.st.err
                      ELSE IF t1.err # "none" THEN t1.err
                      ELSE IF Failed(d.st) THEN d.st.err
                      ELSE t2.err,
              val |-> IF Failed(e.st) THEN e.st.val ELSE 0,
              cycles |-> e.cycles,
              ticked |-> t1.mmu,
              pre |-> DispatchView(Woken(e, t1), t1.mmu),
              enabled |-> t1.mmu.interrupts_enabled,
              post |-> DispatchView(d.st.cpu, Handled(d)),
              dcycles |-> d.cycles, handled |-> d.handled,
              tcycles |-> 4 * e.cycles + 4 * d.cycles,
              mcycles |-> e.cycles + d.cycles ]
        Dispatched(e, t1, d) ==
            Result(e, t1, d, IF d.cycles # 0 THEN Tick(Handled(d), d.cycles, oc)
                             ELSE [mmu |-> Handled(d), frame |-> FALSE, err |-> "none"])
        Ticked(e, t1) ==
            Dispatched(e, t1, ProcessInterrupts(St(Woken(e, t1), t1.mmu, oc), to_process(t1)))
        Executed(e) == Ticked(e, Tick(e.st.mmu, e.cycles, oc))
    IN  Executed(IF c.halted THEN [st |-> St(c, m, oc), cycles |-> HaltedCycles]
                 ELSE ExecNextInstruction(St(c, m, oc)))

(***************************************************************************)
(* ROM images.  A ROM image is a Vec: the program sits at the entry point  *)
(* 0x0100, the header bytes 0x147 / 0x149 select controller and RAM size.  *)
(***************************************************************************)
RomBankSize == 16384

EntryPoint == 256

RomImage(banks, type, ramCode, first, prog) ==
    Vec(banks * RomBankSize,
        [o \in {x \in ({0} \cup {HeaderType, HeaderRamSize}
                         \cup {EntryPoint + i - 1 : i \in 1..Len(prog)}) :
                    (IF x = 0 THEN first
                     ELSE IF x = HeaderType THEN type
                     ELSE IF x = HeaderRamSize THEN ramCode
                     ELSE prog[x - EntryPoint + 1]) # 0} |->
            IF o = 0 THEN first
            ELSE IF o = HeaderType THEN type
            ELSE IF o = HeaderRamSize THEN ramCode
            ELSE prog[o - EntryPoint + 1]])

NoFile == [exists |-> FALSE, content |-> VecZero(0)]

(* Arithmetic written with the plain operators (`self.pc + 1`) panics on   *)
(* overflow in a build with overflow checks and wraps in one without.      *)
DevBuild == [overflow_checks |-> TRUE]

Builds == {DevBuild, [overflow_checks |-> FALSE]}

(***************************************************************************)
(* SpecGpu: the graphics unit driven by Gpu::cycle alone, from             *)
(* construction.  obs.since counts the T-cycles passed to Gpu::cycle since *)
(* the unit was last seen at line 0 / OamRead / mode_cycles 0 (-1 before   *)
(* that, and after the count has run past a whole frame without ending on  *)
(* it), obs.frames the calls since then that returned frame_done.          *)
(***************************************************************************)
(* the frame period the PPU is held to: 144 visible and 10 blank lines of 456 T *)
FrameT == 144 * 456 + 10 * 456

(* T-cycles of one instruction: 1..MaxMCycles M-cycles *)
MaxMCycles == 6

InstrTCycles == {4 * k : k \in 1..MaxMCycles}

AtFrameStart(g) == g.line = 0 /\ g.mode = "OamRead" /\ g.mode_cycles = 0

PlainCart == CartridgeNew(RomImage(2, 0, 0, 195, <<>>))

InitGpu ==
    /\ cpu = CpuNew
    /\ mmu = MmuNew(PlainCart, GpuNew)
    /\ fs = NoFile
    /\ build = DevBuild
    /\ obs = [kind |-> "new", cycles |-> 0, frame |-> FALSE, ints |-> 0,
              since |-> -1, frames |-> 0]

GpuCycleStep(c) ==
    LET restart == obs.since = -1 \/ obs.since >= FrameT
        since0 == IF obs.since >= FrameT \/ (obs.since = -1 /\ AtFrameStart(mmu.gpu))
                  THEN 0 ELSE obs.since
        frames0 == IF restart THEN 0 ELSE obs.frames
        since1 == IF since0 = -1 THEN -1
                  ELSE IF since0 + c > FrameT THEN -1 ELSE since0 + c
    IN  /\ obs.kind # "panic"
        /\ \E r \in {GpuCycle(mmu.gpu, c, build.overflow_checks)} :
              /\ mmu' = IF r.err = "none" THEN [mmu EXCEPT !.gpu = r.gpu] ELSE mmu
              /\ obs' = [kind |-> IF r.err = "none" THEN "cycle" ELSE "panic",
                         cycles |-> c, frame |-> r.frame, ints |-> r.ints,
                         since |-> since1,
                         frames |-> frames0 + (IF r.frame THEN 1 ELSE 0)]
        /\ UNCHANGED <<cpu, fs, build>>

NextGpu == \E c \in InstrTCycles : GpuCycleStep(c)

SpecGpu == InitGpu /\ [][NextGpu]_vars

(* C1: once the T-cycles passed to Gpu::cycle since line 0 / OamRead /     *)
(* mode_cycles 0 sum to exactly 70224, exactly one call has returned       *)
(* frame_done and the unit is again at line 0 / OamRead / mode_cycles 0.   *)
C1_FramePeriod ==
    obs.since = FrameT =>
        /\ obs.frames = 1
        /\ AtFrameStart(mmu.gpu)

C1_Witness == obs.since = FrameT /\ obs.frames = 1 /\ obs.kind = "cycle"

(***************************************************************************)
(* SpecCart: a banked cartridge under Cartridge::write, from construction. *)
(***************************************************************************)
Mbc1Cart == CartridgeNew(RomImage(4, 1, 2, 195, <<>>))

Mbc3Cart == CartridgeNew(RomImage(4, 19, 2, 195, <<>>))

(* one address at each end of every register window, one of external RAM, *)
(* and one that no controller decodes                                      *)
CartAddrs == {0, 8191, 8192, 16383, 16384, 24575, 24576, 32767, 40960, 32768}

CartValues == {0, 1, 3, 10, 31, 32, 96, 127, 128, 255}

InitCart ==
    /\ cpu = CpuNew
    /\ \E c \in {Mbc1Cart, Mbc3Cart} : mmu = MmuNew(c, GpuNew)
    /\ fs = NoFile
    /\ build = DevBuild
    /\ obs = [kind |-> "new", address |-> 0, value |-> 0]

CartWriteStep(address, value) ==
    /\ mmu' = [mmu EXCEPT !.cart = CartWrite(mmu.cart, address, value)]
    /\ obs' = [kind |-> "write", address |-> address, value |-> value]
    /\ UNCHANGED <<cpu, fs, build>>

NextCart == \E address \in CartAddrs, value \in CartValues : CartWriteStep(address, value)

SpecCart == InitCart /\ [][NextCart]_vars

(* C6: an MBC1 cartridge always has bank1 in 1..31 and bank2 in 0..3, and  *)
(* a write to 0x2000..0x3FFF of a value whose low five bits are zero       *)
(* leaves bank1 = 1.                                                       *)
C6_MBC1Banks ==
    mmu.cart.mbc.kind = "MBC1" =>
        /\ mmu.cart.mbc.bank1 \in 1..31
        /\ mmu.cart.mbc.bank2 \in 0..3
        /\ (obs.kind = "write" /\ obs.address \in 8192..16383 /\ obs.value % 32 = 0
               => mmu.cart.mbc.bank1 = 1)

C6_Witness ==
    /\ mmu.cart.mbc.kind = "MBC1"
    /\ obs.kind = "write" /\ obs.address = 16383 /\ obs.value = 96
    /\ mmu.cart.mbc.bank1 = 1
    /\ mmu.cart.mbc.bank2 = 3

(* C7 as stated: an MBC3 cartridge always has its ROM bank in 1..127 and   *)
(* its RAM bank select in 0..15.                                           *)
C7_MBC3Banks ==
    mmu.cart.mbc.kind = "MBC3" =>
        /\ mmu.cart.mbc.bank \in 1..127
        /\ mmu.cart.mbc.map_select \in 0..15

(***************************************************************************)
(* SpecSave: battery-backed RAM written through Cartridge::write, saved    *)
(* with Cartridge::save and brought back by Cartridge::new + try_load.     *)
(* obs.reloads counts the reloads that found a save file.                  *)
(***************************************************************************)
MaxReloads == 1

(* MBC1 with 8 KiB and with 32 KiB of external RAM *)
SaveCarts ==
    {CartridgeNew(RomImage(2, 3, 2, 195, <<>>)), CartridgeNew(RomImage(2, 3, 3, 195, <<>>))}

(* RAM enable and two bytes of external RAM *)
SaveAddrs == {0, 40960, 49151}

SaveValues == {0, 10, 66}

InitSave ==
    /\ cpu = CpuNew
    /\ \E c \in SaveCarts : mmu = MmuNew(c, GpuNew)
    /\ fs = NoFile
    /\ build = DevBuild
    /\ obs = [kind |-> "new", loaded |-> FALSE, reloads |-> 0]

SaveWriteStep(address, value) ==
    /\ mmu' = [mmu EXCEPT !.cart = CartWrite(mmu.cart, address, value)]
    /\ obs' = [obs EXCEPT !.kind = "write", !.loaded = FALSE]
    /\ UNCHANGED <<cpu, fs, build>>

SaveStep ==
    /\ fs' = CartSave(mmu.cart)
    /\ obs' = [obs EXCEPT !.kind = "save", !.loaded = FALSE]
    /\ UNCHANGED <<cpu, mmu, build>>

ReloadStep ==
    /\ fs.exists => obs.reloads < MaxReloads
    /\ mmu' = MmuNew(CartTryLoad(CartridgeNew(mmu.cart.bytes), fs), GpuNew)
    /\ obs' = [kind |-> "reload", loaded |-> fs.exists,
               reloads |-> obs.reloads + (IF fs.exists THEN 1 ELSE 0)]
    /\ UNCHANGED <<cpu, fs, build>>

NextSave ==
    \/ \E address \in SaveAddrs, value \in SaveValues : SaveWriteStep(address, value)
    \/ SaveStep
    \/ ReloadStep

SpecSave == InitSave /\ [][NextSave]_vars

(* C4 as stated: after a fresh cartridge of the same ROM has loaded the    *)
(* save file, its RAM buffer equals the saved one in length and contents.  *)
C4_SaveRoundTrip ==
    obs.kind = "reload" /\ obs.loaded => mmu.cart.ram = fs.content

(***************************************************************************)
(* SpecBus: the bus under Mmu::read and Mmu::write, from construction.     *)
(* obs.disabled records that a non-zero value has been written to 0xFF50,  *)
(* obs.rewrote that zero has been written to it after that.                *)
(***************************************************************************)
BusCarts == {PlainCart, Mbc1Cart}

(* boot ROM window, ROM behind it, MBC registers, work RAM, IF, LY, the     *)
(* overlay register, high RAM and IE                                        *)
BusAddrs == {0, 255, 256, 16384, 24576, 49152, 65295, 65348, 65360, 65408, 65535}

BusValues == {0, 1, 255}

InitBus ==
    /\ cpu = CpuNew
    /\ \E c \in BusCarts : mmu = MmuNew(c, GpuNew)
    /\ fs = NoFile
    /\ build = DevBuild
    /\ obs = [kind |-> "new", address |-> 0, value |-> 0, res |-> Ok(0),
              disabled |-> FALSE, rewrote |-> FALSE]

BusReadStep(address) ==
    /\ obs' = [obs EXCEPT !.kind = "read", !.address = address, !.value = 0,
                          !.res = MmuRead(mmu, address)]
    /\ UNCHANGED <<cpu, mmu, fs, build>>

(* a write that is not stopped by the boot-ROM overlay *)
BusWriteStepUnguarded(address, value) ==
    /\ \E r \in {MmuWrite([mmu EXCEPT !.use_bios = FALSE], address, value)} :
          /\ mmu' = [r.mmu EXCEPT !.use_bios = IF address = 65360 THEN r.mmu.use_bios
                                                 ELSE mmu.use_bios]
          /\ obs' = [kind |-> "write", address |-> address, value |-> value,
                     res |-> [err |-> r.err, val |-> 0],
                     disabled |-> obs.disabled \/ (address = 65360 /\ value # 0),
                     rewrote |-> obs.rewrote
                                 \/ (obs.disabled /\ address = 65360 /\ value = 0)]
    /\ UNCHANGED <<cpu, fs, build>>

BusWriteStep(address, value) ==
    /\ \E r \in {MmuWrite(mmu, address, value)} :
          /\ mmu' = r.mmu
          /\ obs' = [kind |-> "write", address |-> address, value |-> value,
                     res |-> [err |-> r.err, val |-> 0],
                     disabled |-> obs.disabled \/ (address = 65360 /\ value # 0),
                     rewrote |-> obs.rewrote
                                 \/ (obs.disabled /\ address = 65360 /\ value = 0)]
    /\ UNCHANGED <<cpu, fs, build>>

NextBus ==
    \/ \E address \in BusAddrs : BusReadStep(address)
    \/ \E address \in BusAddrs, value \in BusValues : BusWriteStep(address, value)

SpecBus == InitBus /\ [][NextBus]_vars

(* C5: the boot-ROM overlay is on after construction and exactly until the *)
(* first write of a non-zero value to 0xFF50, whatever is written later    *)
(* (zero to 0xFF50 included); while it is on a read of 0x0000..0x00FF      *)
(* gives the boot ROM's byte, once it is off a read of 0x0000 gives the    *)
(* cartridge's byte 0.                                                     *)
C5_BootOverlayOneWay ==
    /\ obs.kind = "new" => mmu.use_bios
    /\ mmu.use_bios = ~obs.disabled
    /\ obs.kind = "read" /\ obs.address <= 255 /\ ~obs.disabled
          => obs.res = Ok(BiosByte(obs.address))
    /\ obs.kind = "read" /\ obs.address = 0 /\ obs.disabled
          => /\ obs.res = CartRead(mmu.cart, 0)
             /\ obs.res = Ok(ArrGet(mmu.cart.bytes.data, 0))

(* a read of 0x0000 that returns the cartridge's byte after the overlay    *)
(* was disabled and zero was then written to 0xFF50                        *)
C5_Witness ==
    /\ obs.kind = "read" /\ obs.address = 0 /\ obs.disabled
    /\ obs.rewrote
    /\ ~mmu.use_bios
    /\ obs.res = Ok(195)

(***************************************************************************)
(* The machine as a client of the library sets it up: the overlay          *)
(* register, IF and IE are written through the bus, the Cpu's fields are   *)
(* public (cpu.rs 83-96).                                                  *)
(***************************************************************************)
MmuAfter(m, address, value) == MmuWrite(m, address, value).mmu

(* a cartridge without controller whose code at the entry point is prog,   *)
(* on a bus with the boot ROM mapped out                                   *)
MmuRunning(prog) ==
    MmuAfter(MmuNew(CartridgeNew(RomImage(2, 0, 0, 195, prog)), GpuNew), 65360, 1)

(***************************************************************************)
(* SpecDecode: Cpu::fetch_instruction (as Device::skip calls it) on every  *)
(* opcode, primary and 0xCB-prefixed, followed by two argument bytes.      *)
(***************************************************************************)
MaxFetches == 1

ArgBytes == {0, 52, 255}

InitDecode ==
    /\ \E opcode \in 0..255, prefixed \in BOOLEAN, b1 \in ArgBytes, b2 \in ArgBytes :
          /\ mmu = MmuRunning((IF prefixed THEN <<203>> ELSE <<>>) \o <<opcode, b1, b2>>)
          /\ opcode = 203 => prefixed
    /\ cpu = [CpuNew EXCEPT !.pc = EntryPoint]
    /\ fs = NoFile
    /\ build \in Builds
    /\ obs = [kind |-> "new", prefixed |-> FALSE, opcode |-> 0, err |-> "none",
              val |-> 0, cycles |-> 0, count |-> 0]

FetchStep ==
    /\ obs.count < MaxFetches
    /\ obs.err = "none"
    /\ \E r \in {FetchInstruction(St(cpu, mmu, build.overflow_checks))},
          first \in {MmuRead(mmu, cpu.pc).val},
          second \in {MmuRead(mmu, U16(cpu.pc + 1)).val} :
          /\ cpu' = r.st.cpu
          /\ obs' = [kind |-> "fetch", prefixed |-> (first = 203),
                     opcode |-> IF first = 203 THEN second ELSE first,
                     err |-> r.st.err,
                     val |-> IF Failed(r.st) THEN r.st.val ELSE 0,
                     cycles |-> IF Failed(r.st) THEN 0
                                ELSE InstructionCycles(r.instruction),
                     count |-> obs.count + 1]
    /\ UNCHANGED <<mmu, fs, build>>

NextDecode == FetchStep

SpecDecode == InitDecode /\ [][NextDecode]_vars

(* C9: the instruction decoded from a primary opcode other than 0xCB or    *)
(* from a 0xCB-prefixed opcode reports the M-cycle cost the reference      *)
(* table OPCODE_CYCLES respectively EXTENDED_OPCODE_CYCLES gives it.       *)
C9_DecodedCycles ==
    obs.kind = "fetch" /\ obs.err = "none" =>
        obs.cycles = IF obs.prefixed THEN EXTENDED_OPCODE_CYCLES[obs.opcode + 1]
                     ELSE OPCODE_CYCLES[obs.opcode + 1]

(* BIT 0,(HL) decoded with its three M-cycles, LD (a16),SP with its five *)
C9_Witness ==
    /\ obs.kind = "fetch" /\ obs.err = "none"
    /\ \/ obs.prefixed /\ obs.opcode = 70 /\ obs.cycles = 3
       \/ ~obs.prefixed /\ obs.opcode = 8 /\ obs.cycles = 5

UndefinedOpcodes == {211, 219, 221, 227, 228, 235, 236, 237, 244, 252, 253}

(* C10: decoding fails, with InvalidOpcode carrying the byte, exactly for  *)
(* the eleven undefined primary opcodes; every other primary opcode and    *)
(* every 0xCB-prefixed opcode decodes to an instruction.                   *)
C10_InvalidOpcodes ==
    obs.kind = "fetch" =>
        IF ~obs.prefixed /\ obs.opcode \in UndefinedOpcodes
        THEN obs.err = "InvalidOpcode" /\ obs.val = obs.opcode
        ELSE obs.err = "none"

C10_Witness ==
    /\ obs.kind = "fetch" /\ ~obs.prefixed /\ obs.opcode = 211
    /\ obs.err = "InvalidOpcode" /\ obs.val = 211

(***************************************************************************)
(* SpecStep: Mmu::step (Device::step) running a short program from the     *)
(* entry point, with IF, IE, IME and SP as the client left them.  The rest *)
(* of the ROM is zero (NOP), the interrupt handlers included.              *)
(***************************************************************************)
MaxSteps == 4

(* EI NOP NOP; NOP; DI; HALT; EI DI *)
StepProgs == << <<251, 0, 0>>, <<0>>, <<243>>, <<118>>, <<251, 243>> >>

StepPending == {0, 1, 3, 20, 31}

StepEnabled == {0, 1, 2, 31}

(* high RAM, work RAM, the two stacks whose pushes land on IF (0xFF0F), a  *)
(* stack whose push lands on LY (0xFF44), and the wrap onto IE             *)
StepStacks == {65534, 53248, 65297, 65296, 65350, 0}

RamStack(sp) == (sp - 2 >= 49152 /\ sp <= 57344) \/ (sp - 2 >= 65408 /\ sp <= 65535)

StepObs(kind, steps, scn, r) ==
    [ kind |-> kind, steps |-> steps, scn |-> scn, err |-> r.err, cycles |-> r.cycles,
      pre |-> r.pre, enabled |-> r.enabled, post |-> r.post, dcycles |-> r.dcycles,
      handled |-> r.handled, tcycles |-> r.tcycles, frame |-> r.frame ]

InitStep ==
    \E p \in DOMAIN StepProgs, if0 \in StepPending, ie0 \in StepEnabled,
       ime0 \in {"Disabled", "Enabled"}, sp0 \in StepStacks :
        /\ cpu = [CpuNew EXCEPT !.pc = EntryPoint, !.sp = sp0, !.interrupt_state = ime0]
        /\ mmu = MmuAfter(MmuAfter(MmuRunning(StepProgs[p]), 65295, if0), 65535, ie0)
        /\ fs = NoFile
        /\ build \in Builds
        /\ obs = StepObs("new", 0, [prog |-> p, if0 |-> if0, ie0 |-> ie0, ime0 |-> ime0,
                                    sp0 |-> sp0],
                         [ err |-> "none", cycles |-> 0, pre |-> DispatchView(cpu, mmu),
                           enabled |-> ie0, post |-> DispatchView(cpu, mmu), dcycles |-> 0,
                           handled |-> 0, tcycles |-> 0, frame |-> FALSE ])

(* a step that ends in a panic ends the run *)
Step ==
    /\ obs.kind # "panic"
    /\ obs.steps < MaxSteps
    /\ \E r \in {MmuStep(cpu, mmu, build.overflow_checks)} :
          /\ IF r.err = "none"
             THEN cpu' = r.cpu /\ mmu' = r.mmu
             ELSE UNCHANGED <<cpu, mmu>>
          /\ obs' = StepObs(IF r.err = "none" THEN "step" ELSE "panic", obs.steps + 1,
                            obs.scn, r)
    /\ UNCHANGED <<fs, build>>

NextStep == Step

SpecStep == InitStep /\ [][NextStep]_vars

(* what process_interrupts was given: pending & enabled *)
ToProcess == And8(obs.pre.pending, obs.enabled)

Dispatching == obs.pre.ime = "Enabled" /\ ToProcess # 0

(* the interrupt of lowest index in a non-empty set, by index *)
LowestIndex(set) == CHOOSE i \in 0..4 : BitAt(set, i) = 1 /\ \A j \in 0..(i - 1) : BitAt(set, j) = 0

(* the addresses the two bytes of the return address are pushed to *)
PushAddrs == {U16(obs.pre.sp + 65535), U16(obs.pre.sp + 65534)}

(* the 16-bit word in memory at the stack pointer *)
StackTop == MmuRead(mmu, cpu.sp).val + 256 * MmuRead(mmu, U16(cpu.sp + 1)).val

(* the effects of a dispatch that C2 lists, but for the pending register *)
DispatchEffects ==
    /\ obs.handled = Pow2(LowestIndex(ToProcess))
    /\ obs.post.ime = "Disabled"
    /\ obs.post.sp = U16(obs.pre.sp + 65534)
    /\ obs.post.pc = 64 + 8 * LowestIndex(ToProcess)
    /\ obs.dcycles = 5
    /\ obs.tcycles = 4 * (obs.cycles + 5)
    /\ RamStack(obs.pre.sp) => StackTop = obs.pre.pc

NoDispatch == obs.post = obs.pre /\ obs.dcycles = 0 /\ obs.handled = 0

(* C2 as stated: whenever IME is Enabled and pending & enabled is not      *)
(* empty at the end of a step, the interrupt of lowest index is            *)
(* dispatched: IME becomes Disabled, only its bit leaves the pending       *)
(* register, PC is pushed, PC becomes 0x40 + 8 * index and 5 M-cycles are  *)
(* charged; otherwise dispatch changes none of PC, SP, IME and pending.    *)
C2_Dispatch ==
    obs.kind \in {"step", "panic"} =>
        IF Dispatching
        THEN /\ obs.kind = "step"
             /\ DispatchEffects
             /\ obs.post.pending = obs.pre.pending - obs.handled
        ELSE NoDispatch

(* C2 amended: the same, provided the bus accepts the two writes of the    *)
(* push (the step panics otherwise); the pending register keeps every bit  *)
(* but the dispatched one provided neither byte is pushed to 0xFF0F.       *)
C2_DispatchAmended ==
    obs.kind = "step" =>
        IF Dispatching
        THEN /\ DispatchEffects
             /\ 65295 \notin PushAddrs => obs.post.pending = obs.pre.pending - obs.handled
        ELSE NoDispatch

(* TIMER dispatched ahead of JOYPAD, which stays pending *)
C2_Witness ==
    /\ obs.kind = "step" /\ Dispatching
    /\ obs.pre.pending = 20 /\ obs.handled = Interrupts.TIMER
    /\ obs.post.pending = 16 /\ cpu.pc = 80
    /\ RamStack(obs.pre.sp) /\ StackTop = obs.pre.pc

(* the scenario of C3: EI; NOP; NOP with IME Disabled, IF = IE = 0x01 *)
EiScenario ==
    /\ obs.scn.prog = 1 /\ obs.scn.if0 = 1 /\ obs.scn.ie0 = 1
    /\ obs.scn.ime0 = "Disabled" /\ RamStack(obs.scn.sp0)

(* C3 as stated: in the scenario the VBlank interrupt is dispatched at the *)
(* end of the third step (the second NOP), not at the end of the first     *)
(* (EI) nor of the second (the first NOP).                                 *)
C3_EiDelay ==
    EiScenario =>
        /\ obs.steps \in {1, 2} => obs.handled = 0 /\ cpu.pc # 64
        /\ obs.steps = 3 => obs.handled = Interrupts.VBLANK /\ cpu.pc = 64

(* C3 amended: in the scenario the VBlank interrupt is dispatched at the   *)
(* end of the second step, the one that executes the first NOP, with the   *)
(* address of the second NOP pushed; not at the end of the first (EI),     *)
(* which leaves the enable pending.                                        *)
C3_EiDelayAmended ==
    EiScenario =>
        /\ obs.steps = 1 =>
              obs.handled = 0 /\ cpu.pc = 257 /\ cpu.interrupt_state = "ShouldEnable"
        /\ obs.steps = 2 =>
              /\ obs.cycles = 1 /\ obs.pre.pc = 258 /\ obs.pre.ime = "Enabled"
              /\ obs.handled = Interrupts.VBLANK /\ cpu.pc = 64 /\ StackTop = 258
              /\ cpu.interrupt_state = "Disabled"
        /\ obs.steps = 3 => obs.handled = 0 /\ cpu.pc = 65

C3_Witness ==
    /\ EiScenario /\ obs.kind = "step" /\ obs.steps = 2
    /\ obs.handled = Interrupts.VBLANK /\ cpu.pc = 64 /\ obs.post.pending = 0

(***************************************************************************)
(* SpecExec: one instruction of every opcode, primary and 0xCB-prefixed,   *)
(* run by Mmu::step from the entry point with the flags all clear or all   *)
(* set.  The registers point into work RAM: (HL) and the word on the stack *)
(* hold 0xFF, so that POP AF is handed 0xFFFF.  The steps after the first  *)
(* run what the first left at PC.  Around the opcodes of PokedOpcodes the  *)
(* client also writes register pairs through Cpu::set_reg_u16 and reads    *)
(* them back through Cpu::get_reg_u16, before, between and after steps.    *)
(***************************************************************************)
MaxExecSteps == 3

MaxPairWrites == 2

ExecArgs == <<15, 192>>

ExecFlags == {0, 240}

PairValues == {4660, 65535}

(* NOP, DAA, SCF, ADD A,B, POP AF, PUSH AF *)
PokedOpcodes == {0, 39, 55, 128, 241, 245}

ExecCpu(f0) ==
    [CpuNew EXCEPT !.pc = EntryPoint, !.a = 154, !.f = f0, !.b = 15, !.c = 128,
                   !.d = 192, !.e = 1, !.h = 192, !.l = 0, !.sp = 53248]

ExecMmu(prog) ==
    MmuAfter(MmuAfter(MmuAfter(MmuRunning(prog), 49152, 255), 53248, 255), 53249, 255)

InitExec ==
    \E opcode \in 0..255, prefixed \in BOOLEAN, f0 \in ExecFlags :
        /\ opcode = 203 => prefixed
        /\ cpu = ExecCpu(f0)
        /\ mmu = ExecMmu((IF prefixed THEN <<203>> ELSE <<>>) \o <<opcode>> \o ExecArgs)
        /\ fs = NoFile
        /\ build \in Builds
        /\ obs = [kind |-> "new", prefixed |-> prefixed, opcode |-> opcode, steps |-> 0,
                  writes |-> 0, reg |-> "AF", v |-> 0, readback |-> 0, err |-> "none"]

(* a step that ends in a panic ends the run *)
ExecStepOne ==
    /\ obs.kind # "panic"
    /\ obs.steps < MaxExecSteps
    /\ \E r \in {MmuStep(cpu, mmu, build.overflow_checks)} :
          /\ IF r.err = "none"
             THEN cpu' = r.cpu /\ mmu' = r.mmu
             ELSE UNCHANGED <<cpu, mmu>>
          /\ obs' = [obs EXCEPT !.kind = IF r.err = "none" THEN "step" ELSE "panic",
                                !.steps = obs.steps + 1, !.err = r.err]
    /\ UNCHANGED <<fs, build>>

SetPair(reg, v) ==
    LET st == SetRegU16(St(cpu, mmu, build.overflow_checks), reg, v)
    IN  /\ obs.kind # "panic"
        /\ ~obs.prefixed /\ obs.opcode \in PokedOpcodes
        /\ obs.writes < MaxPairWrites
        /\ cpu' = st.cpu
        /\ obs' = [obs EXCEPT !.kind = "setpair", !.writes = obs.writes + 1, !.reg = reg,
                              !.v = v, !.readback = GetRegU16(st.cpu, reg),
                              !.err = st.err]
        /\ UNCHANGED <<mmu, fs, build>>

NextExec ==
    \/ ExecStepOne
    \/ \E reg \in CpuRegisters16, v \in PairValues : SetPair(reg, v)

SpecExec == InitExec /\ [][NextExec]_vars

(* C8: after any sequence of executed instructions and register-pair       *)
(* writes the low four bits of F are zero; a pair write of v reads back as *)
(* v for BC, DE, HL and SP and as v with the low four bits cleared for AF. *)
C8_FlagLowNibble ==
    /\ cpu.f % 16 = 0
    /\ obs.kind = "setpair" =>
          /\ obs.err = "none"
          /\ obs.readback = IF obs.reg = "AF" THEN obs.v - (obs.v % 16) ELSE obs.v

(* POP AF handed 0xFFFF from the stack, then 0xFFFF written to AF: both    *)
(* leave A = 0xFF and F = 0xF0                                             *)
C8_Witness ==
    /\ ~obs.prefixed /\ obs.opcode = 241 /\ obs.steps = 1 /\ obs.writes = 1
    /\ obs.kind = "setpair" /\ obs.reg = "AF" /\ obs.v = 65535 /\ obs.readback = 65520
    /\ cpu.sp = 53250

(***************************************************************************)
(* SpecPalette: the palette registers 0xFF47..0xFF49 written and read back *)
(* over the bus (mmu.rs 174-176, 282-293), with pack_palette and           *)
(* unpack_palette (mmu.rs 327-345) applied to the byte written.            *)
(***************************************************************************)
PaletteRegs == {65351, 65352, 65353}

InitPalette ==
    /\ cpu = CpuNew
    /\ mmu = MmuNew(PlainCart, GpuNew)
    /\ fs = NoFile
    /\ build = DevBuild
    /\ \E b \in 0..255 :
          obs = [kind |-> "new", reg |-> 65351, b |-> b, unpacked |-> <<0, 0, 0, 0>>,
                 packed |-> 0, again |-> <<0, 0, 0, 0>>, read |-> Ok(0)]

PaletteWriteStep(reg, b) ==
    /\ \E m \in {MmuAfter(mmu, reg, b)} :
          /\ mmu' = m
          /\ obs' = [kind |-> "write", reg |-> reg, b |-> b,
                     unpacked |-> UnpackPalette(b),
                     packed |-> PackPalette(UnpackPalette(b)),
                     again |-> UnpackPalette(PackPalette(UnpackPalette(b))),
                     read |-> MmuRead(m, reg)]
    /\ UNCHANGED <<cpu, fs, build>>

(* the byte drawn at the start is written to each palette register *)
NextPalette == \E reg \in PaletteRegs : PaletteWriteStep(reg, obs.b)

SpecPalette == InitPalette /\ [][NextPalette]_vars

(* C11: for every byte b, pack_palette(unpack_palette(b)) = b and          *)
(* unpack_palette(pack_palette(unpack_palette(b))) = unpack_palette(b);    *)
(* every entry of unpack_palette(b) is in 0..3 and entry i is bits 2i and  *)
(* 2i+1 of b; the register written with b reads back b.                    *)
C11_PaletteRoundTrip ==
    obs.kind = "write" =>
        /\ obs.packed = obs.b
        /\ obs.again = obs.unpacked
        /\ \A i \in 1..4 : /\ obs.unpacked[i] \in 0..3
                           /\ obs.unpacked[i] = (obs.b \div Pow2(2 * (i - 1))) % 4
        /\ obs.read = Ok(obs.b)

(* 0xE4, the identity palette, written to the background palette register *)
C11_Witness ==
    /\ obs.kind = "write" /\ obs.reg = 65351 /\ obs.b = 228
    /\ obs.unpacked = <<0, 1, 2, 3>> /\ obs.packed = 228
    /\ mmu.gpu.bg_palette = <<0, 1, 2, 3>>

(***************************************************************************)
(* Joypad: Mmu::press, Mmu::release (mmu.rs 121-146), the P1 register at   *)
(* 0xFF00 (mmu.rs 160, 212-224) and the pending set at 0xFF0F.             *)
(***************************************************************************)
(* a press that raises JOYPAD whenever the selector is low, edge or not *)
PressOneLevel(m, button) ==
    LET pushed == [m EXCEPT !.pressed = Append(@, button)]
    IN  IF And8(pushed.p1, ButtonEnabledBit(button)) # 0 THEN pushed
        ELSE [pushed EXCEPT !.interrupts = IntInsert(@, Interrupts.JOYPAD),
                            !.p1 = And8(@, Not8(ButtonBit(button)))]

(* one turn of the loop of Mmu::press *)
PressOne(m, button) ==
    LET pushed == [m EXCEPT !.pressed = Append(@, button)]
    IN  IF And8(pushed.p1, ButtonEnabledBit(button)) # 0 THEN pushed
        ELSE IF And8(pushed.p1, ButtonBit(button)) # 0
             THEN [pushed EXCEPT !.interrupts = IntInsert(@, Interrupts.JOYPAD),
                                 !.p1 = And8(@, Not8(ButtonBit(button)))]
             ELSE pushed

RECURSIVE MmuPress(_, _, _)
MmuPress(m, buttons, i) ==
    IF i > Len(buttons) THEN m ELSE MmuPress(PressOne(m, buttons[i]), buttons, i + 1)

(* one turn of the loop of Mmu::release *)
ReleaseOne(m, button) ==
    IF And8(m.p1, ButtonEnabledBit(button)) = 0 THEN m
    ELSE [m EXCEPT !.p1 = Or8(@, ButtonBit(button))]

RECURSIVE ReleaseLoop(_, _, _)
ReleaseLoop(m, buttons, i) ==
    IF i > Len(buttons) THEN m ELSE ReleaseLoop(ReleaseOne(m, buttons[i]), buttons, i + 1)

SeqElems(s) == {s[k] : k \in DOMAIN s}

(* pressed.retain(|button| !buttons.contains(button)), then the loop *)
MmuRelease(m, buttons) ==
    ReleaseLoop([m EXCEPT !.pressed = SelectSeq(@, LAMBDA b : b \notin SeqElems(buttons))],
                buttons, 1)

MaxHeld == 3

(* Down and Start share bit 3 in the two groups; Left is bit 1 of Down's group *)
PadButtons == {"Down", "Start", "Left"}

(* one button per call, as the window's key handler passes them, and one   *)
(* call with two buttons                                                   *)
PadSlices == {<<b>> : b \in PadButtons} \cup {<<"Down", "Start">>}

(* the four settings of the two selector bits *)
PadSelects == {0, 16, 32, 48}

PadObs(kind, buttons, m, unreleased, since, after) ==
    [kind |-> kind, buttons |-> buttons, p1 |-> m.p1, pressed |-> m.pressed,
     pending |-> m.interrupts, unreleased |-> unreleased, since |-> since,
     read |-> MmuRead(after, 65280)]

InitJoypad ==
    /\ cpu = CpuNew
    /\ mmu = MmuNew(PlainCart, GpuNew)
    /\ fs = NoFile
    /\ build = DevBuild
    /\ obs = PadObs("new", <<>>, mmu, {}, {}, mmu)

(* obs.since: the buttons pressed since the last call of release;          *)
(* obs.unreleased: the same set before the step                            *)
PressStep(buttons) ==
    /\ Len(mmu.pressed) + Len(buttons) <= MaxHeld
    /\ \E m \in {MmuPress(mmu, buttons, 1)} :
          /\ mmu' = m
          /\ obs' = PadObs("press", buttons, mmu, obs.since,
                        obs.since \cup SeqElems(buttons), m)
    /\ UNCHANGED <<cpu, fs, build>>

ReleaseStep(buttons) ==
    /\ \E m \in {MmuRelease(mmu, buttons)} :
          /\ mmu' = m
          /\ obs' = PadObs("release", buttons, mmu, obs.since, {}, m)
    /\ UNCHANGED <<cpu, fs, build>>

(* the program selects a button group: a write to 0xFF00 *)
SelectStep(value) ==
    /\ \E m \in {MmuAfter(mmu, 65280, value)} :
          /\ mmu' = m
          /\ obs' = PadObs("select", <<>>, mmu, obs.since, obs.since, m)
    /\ UNCHANGED <<cpu, fs, build>>

(* the program acknowledges the pending interrupts: a write of 0 to 0xFF0F *)
AckStep ==
    /\ mmu.interrupts # 0
    /\ \E m \in {MmuAfter(mmu, 65295, 0)} :
          /\ mmu' = m
          /\ obs' = PadObs("ack", <<>>, mmu, obs.since, obs.since, m)
    /\ UNCHANGED <<cpu, fs, build>>

NextJoypad ==
    \/ \E buttons \in PadSlices : PressStep(buttons)
    \/ \E buttons \in PadSlices : ReleaseStep(buttons)
    \/ \E value \in PadSelects : SelectStep(value)
    \/ AckStep

SpecJoypad == InitJoypad /\ [][NextJoypad]_vars

BitOf(v, k) == (v \div Pow2(k)) % 2

JoypadPending(set) == IntContains(set, Interrupts.JOYPAD)

(* the press raised JOYPAD: it was not pending before and is pending after *)
PressRaised == obs.kind = "press" /\ ~JoypadPending(obs.pending) /\ JoypadPending(mmu.interrupts)

(* a second press of a button pressed since the last release raises nothing *)
C12_NoSecondRaise ==
    (obs.kind = "press" /\ obs.buttons = <<"Down">> /\ "Down" \in obs.unreleased)
    => ~PressRaised

(* JOYPAD is raised only on a 1 -> 0 edge of a bit whose selector is low *)
C12_RaiseOnlyOnEdge ==
    PressRaised =>
        \E k \in DOMAIN obs.buttons :
            /\ And8(obs.p1, ButtonEnabledBit(obs.buttons[k])) = 0
            /\ And8(obs.p1, ButtonBit(obs.buttons[k])) # 0
            /\ And8(mmu.p1, ButtonBit(obs.buttons[k])) = 0

(* C12: with the directional selector low (P1 bit 4 = 0) and Down not      *)
(* held, press(Down) takes P1 bit 3 from 1 to 0 and sets JOYPAD pending; a *)
(* second press(Down) with no release in between does not raise JOYPAD     *)
(* again; press raises JOYPAD only on a 1 -> 0 edge of a low-nibble bit    *)
(* whose selector is low.                                                  *)
C12_PressInterrupt ==
    /\ (obs.kind = "press" /\ obs.buttons = <<"Down">> /\ BitOf(obs.p1, 4) = 0
            /\ "Down" \notin SeqElems(obs.pressed))
       => (BitOf(obs.p1, 3) = 1 /\ BitOf(mmu.p1, 3) = 0 /\ JoypadPending(mmu.interrupts))
    /\ C12_NoSecondRaise
    /\ C12_RaiseOnlyOnEdge

(* C12 amended: with the directional selector low and P1 bit 3 still 1,    *)
(* press(Down) takes bit 3 to 0 and sets JOYPAD pending; with bit 3        *)
(* already 0 or the selector high it leaves P1 and the pending set as they *)
(* were; the rest as stated.                                               *)
C12_PressInterruptAmended ==
    /\ (obs.kind = "press" /\ obs.buttons = <<"Down">>)
       => IF BitOf(obs.p1, 4) = 0 /\ BitOf(obs.p1, 3) = 1
          THEN /\ mmu.p1 = obs.p1 - 8
               /\ mmu.interrupts = IntInsert(obs.pending, Interrupts.JOYPAD)
          ELSE mmu.p1 = obs.p1 /\ mmu.interrupts = obs.pending
    /\ (obs.kind = "press") => mmu.pressed = obs.pressed \o obs.buttons
    /\ C12_NoSecondRaise
    /\ C12_RaiseOnlyOnEdge

(* Down pressed again after an acknowledge, the first press still held *)
C12_Witness ==
    /\ obs.kind = "press" /\ obs.buttons = <<"Down">>
    /\ obs.pressed = <<"Down">> /\ "Down" \in obs.unreleased
    /\ BitOf(obs.p1, 4) = 0 /\ BitOf(obs.p1, 3) = 0
    /\ ~JoypadPending(obs.pending) /\ ~JoypadPending(mmu.interrupts)

(* C13: each of the lower four bits read at 0xFF00 is 0 exactly when some  *)
(* held button maps to that bit and has its selector bit low in P1.        *)
C13_P1ReflectsHeld ==
    \A k \in 0..3 :
        (obs.read = Ok(mmu.p1) /\ BitOf(obs.read.val, k) = 0)
        <=> \E b \in SeqElems(mmu.pressed) :
                ButtonBit(b) = Pow2(k) /\ And8(mmu.p1, ButtonEnabledBit(b)) = 0

(***************************************************************************)
(* OAM DMA: the 0xff46 arm of Mmu::write (mmu.rs 271-281) for every page.  *)
(***************************************************************************)
(* the first and the last byte of the block at 0xC100, and the byte after  *)
(* the block                                                               *)
DmaFillAddrs == {49408, 49567, 49568}

DmaFillValues == {90}

DmaSource(m, v) == [i \in 0..(OamSize - 1) |-> MmuRead(m, v * 256 + i)]

(* the page is drawn at the start: every byte value is covered *)
InitDma ==
    /\ cpu = CpuNew
    /\ \E c \in BusCarts : mmu = MmuNew(c, GpuNew)
    /\ fs = NoFile
    /\ build = DevBuild
    /\ \E v \in 0..255 :
          obs = [kind |-> "new", v |-> v, src |-> <<>>, err |-> "none",
                 before |-> mmu]

DmaFillStep(address, value) ==
    /\ \E m \in {MmuAfter(mmu, address, value)} :
          /\ mmu' = m
          /\ obs' = [kind |-> "fill", v |-> obs.v, src |-> <<>>, err |-> "none",
                     before |-> mmu]
    /\ UNCHANGED <<cpu, fs, build>>

(* the write of the page to 0xFF46, obs.src the reads of the source block  *)
(* before it; a panic ends the run, the memory stays                       *)
DmaStep ==
    /\ \E r \in {MmuWrite(mmu, 65350, obs.v)} :
          /\ mmu' = r.mmu
          /\ obs' = [kind |-> "dma", v |-> obs.v, src |-> DmaSource(mmu, obs.v),
                     err |-> r.err, before |-> mmu]
    /\ UNCHANGED <<cpu, fs, build>>

NextDma ==
    \/ \E address \in DmaFillAddrs, value \in DmaFillValues : DmaFillStep(address, value)
    \/ DmaStep

SpecDma == InitDma /\ [][NextDma]_vars

(* every byte of OAM reads what the source read before the write, and      *)
(* nothing but OAM differs from the memory before                          *)
DmaCopied ==
    /\ obs.err = "none"
    /\ \A i \in 0..(OamSize - 1) :
          obs.src[i].err = "none" /\ MmuRead(mmu, 65024 + i) = obs.src[i]
    /\ mmu = [obs.before EXCEPT !.gpu.oam = mmu.gpu.oam]

(* C14: for every byte v a write of v to 0xFF46 completes without error,   *)
(* afterwards OAM byte i equals what a bus read of (v << 8) + i returned   *)
(* before the write, and nothing outside OAM is changed.                   *)
C14_OamDma == obs.kind = "dma" => DmaCopied

(* C14 amended: so for v <= 0xF1 when every read of the source block       *)
(* succeeds; for v > 0xF1, and when a read of the source panics, the write *)
(* panics.                                                                 *)
C14_OamDmaAmended ==
    obs.kind = "dma" =>
        IF obs.v <= DmaMaxPage /\ \A i \in 0..(OamSize - 1) : obs.src[i].err = "none"
        THEN DmaCopied
        ELSE obs.err = "panic" /\ mmu = obs.before

(* 0xC1 written: 0xC100 and 0xC19F arrive in OAM, 0xC1A0 does not *)
C14_Witness ==
    /\ obs.kind = "dma" /\ obs.v = 193 /\ obs.err = "none"
    /\ MmuRead(obs.before, 49408) = Ok(90)
    /\ MmuRead(obs.before, 49567) = Ok(90)
    /\ MmuRead(obs.before, 49568) = Ok(90)
    /\ MmuRead(mmu, 65024) = Ok(90)
    /\ MmuRead(mmu, 65183) = Ok(90)
    /\ Cardinality(DOMAIN mmu.gpu.oam) = 2

(***************************************************************************)
(* SpecBranch: the sixteen conditional branches (JR cc, JP cc, CALL cc,    *)
(* RET cc; cpu.rs 478-492, 525-531, 630-635) run by Mmu::step with every   *)
(* setting of the Z and C flags.  The code sits at the entry point; JR is  *)
(* also run from the top of high RAM, where the target wraps past 0xFFFF.  *)
(***************************************************************************)
MaxBranchSteps == 2

JrOpcodes == {32, 40, 48, 56}

RetOpcodes == {192, 200, 208, 216}

JpOpcodes == {194, 202, 210, 218}

CallOpcodes == {196, 204, 212, 220}

(* +0, +5, +127, -128, -5 as offsets; the low byte of the target otherwise *)
BranchArgs == {0, 5, 127, 128, 251}

(* Z and C clear or set *)
BranchFlags == {0, 16, 128, 144}

(* the entry point, and for JR also 0xFFFD *)
BranchStarts(opcode) == IF opcode \in JrOpcodes THEN {EntryPoint, 65533} ELSE {EntryPoint}

BranchMmu(start, prog) ==
    IF start = EntryPoint THEN ExecMmu(prog)
    ELSE MmuAfter(MmuAfter(ExecMmu(<<>>), start, prog[1]), start + 1, prog[2])

BranchView(c, m) == [pc |-> c.pc, sp |-> c.sp, wram |-> m.wram, hram |-> m.hram]

InitBranch ==
    \E opcode \in JrOpcodes \cup RetOpcodes \cup JpOpcodes \cup CallOpcodes,
       b1 \in BranchArgs, f0 \in BranchFlags :
        \E start \in BranchStarts(opcode) :
            /\ cpu = [ExecCpu(f0) EXCEPT !.pc = start]
            /\ mmu = BranchMmu(start, <<opcode, b1, 192>>)
            /\ fs = NoFile
            /\ build \in Builds
            /\ obs = [kind |-> "new", opcode |-> opcode, b1 |-> b1, f0 |-> f0,
                      start |-> start, steps |-> 0, cycles |-> 0, err |-> "none",
                      before |-> BranchView(cpu, mmu)]

(* a step that ends in a panic ends the run *)
BranchStep ==
    /\ obs.kind # "panic"
    /\ obs.steps < MaxBranchSteps
    /\ \E r \in {MmuStep(cpu, mmu, build.overflow_checks)} :
          /\ IF r.err = "none"
             THEN cpu' = r.cpu /\ mmu' = r.mmu
             ELSE UNCHANGED <<cpu, mmu>>
          /\ obs' = [obs EXCEPT !.kind = IF r.err = "none" THEN "step" ELSE "panic",
                                !.steps = obs.steps + 1, !.cycles = r.mcycles,
                                !.err = r.err, !.before = BranchView(cpu, mmu)]
    /\ UNCHANGED <<fs, build>>

NextBranch == BranchStep

SpecBranch == InitBranch /\ [][NextBranch]_vars

(* the condition of the opcode (bits 3-4: NZ, Z, NC, C) on the flags *)
BranchCond ==
    LET cc == (obs.opcode \div 8) % 4
        z == obs.f0 \div 128 = 1
        cy == (obs.f0 \div 16) % 2 = 1
    IN  CASE cc = 0 -> ~z [] cc = 1 -> z [] cc = 2 -> ~cy [] cc = 3 -> cy

BranchLen ==
    IF obs.opcode \in JrOpcodes THEN 2 ELSE IF obs.opcode \in RetOpcodes THEN 1 ELSE 3

BranchNext == (obs.start + BranchLen) % 65536

BranchOffset == IF obs.b1 >= 128 THEN obs.b1 - 256 ELSE obs.b1

BranchTarget == obs.b1 + 256 * 192

StackUntouched ==
    cpu.sp = obs.before.sp /\ mmu.wram = obs.before.wram /\ mmu.hram = obs.before.hram

(* C15: JR cc costs 3 M-cycles taken, with PC = (address after the         *)
(* instruction) + sign-extended offset modulo 2^16, and 2 not taken, with  *)
(* PC advanced by 2; JP cc, CALL cc and RET cc cost 3, 3 and 2 not taken   *)
(* and 1, 3 and 3 more when taken; a not-taken CALL cc or RET cc leaves SP *)
(* and the stack as they were.                                             *)
C15_Branches ==
    (obs.steps = 1) =>
        /\ obs.kind = "step" /\ obs.err = "none"
        /\ obs.opcode \in JrOpcodes =>
              IF BranchCond
              THEN obs.cycles = 3 /\ cpu.pc = (BranchNext + BranchOffset + 65536) % 65536
              ELSE obs.cycles = 2 /\ cpu.pc = (obs.start + 2) % 65536 /\ StackUntouched
        /\ obs.opcode \in JpOpcodes =>
              IF BranchCond
              THEN obs.cycles = 3 + 1 /\ cpu.pc = BranchTarget /\ StackUntouched
              ELSE obs.cycles = 3 /\ cpu.pc = BranchNext /\ StackUntouched
        /\ obs.opcode \in CallOpcodes =>
              IF BranchCond
              THEN /\ obs.cycles = 3 + 3 /\ cpu.pc = BranchTarget
                   /\ cpu.sp = obs.before.sp - 2
                   /\ MmuRead(mmu, cpu.sp) = Ok(BranchNext % 256)
                   /\ MmuRead(mmu, cpu.sp + 1) = Ok(BranchNext \div 256)
              ELSE obs.cycles = 3 /\ cpu.pc = BranchNext /\ StackUntouched
        /\ obs.opcode \in RetOpcodes =>
              IF BranchCond
              THEN /\ obs.cycles = 2 + 3 /\ cpu.pc = 65535
                   /\ cpu.sp = obs.before.sp + 2
              ELSE obs.cycles = 2 /\ cpu.pc = BranchNext /\ StackUntouched

(* JR NZ,+5 at 0xFFFD with Z clear: taken, 3 M-cycles, PC wraps to 0x0004 *)
C15_Witness ==
    /\ obs.steps = 1 /\ obs.kind = "step" /\ obs.opcode = 32 /\ obs.b1 = 5
    /\ obs.f0 = 0 /\ obs.start = 65533 /\ obs.cycles = 3 /\ cpu.pc = 4

(***************************************************************************)
(* SpecTimer: Mmu::step (mmu.rs 83-119) over NOPs or a JP loop with the    *)
(* timer registers TAC, TIMA, TMA and IE set through the bus; each step    *)
(* calls Timer::cycle (timer.rs 32-68) with the instruction's M-cycles     *)
(* and, after a dispatch, once more with the dispatch's.                   *)
(***************************************************************************)
MaxTimerSteps == 18

(* all NOP; JP 0x0100 *)
TimerProgs == << <<>>, <<195, 0, 1>> >>

(* disabled; enabled at one count per tick; enabled at one count per four *)
TimerTacs == {1, 5, 6}

TimerTimas == {254, 255}

TimerTmas == {0, 128}

TimerEnables == {0, 4}

TimerStacks == {65534, 53248}

InitTimer ==
    \E p \in DOMAIN TimerProgs, tac \in TimerTacs, tima \in TimerTimas, tma \in TimerTmas,
       ie0 \in TimerEnables, ime0 \in {"Disabled", "Enabled"}, sp0 \in TimerStacks :
        /\ cpu = [CpuNew EXCEPT !.pc = EntryPoint, !.sp = sp0, !.interrupt_state = ime0]
        /\ mmu = MmuAfter(MmuAfter(MmuAfter(MmuAfter(MmuRunning(TimerProgs[p]),
                     65287, tac), 65285, tima), 65286, tma), 65535, ie0)
        /\ fs = NoFile
        /\ build \in Builds
        /\ obs = [kind |-> "new", steps |-> 0,
                  scn |-> [prog |-> p, tac |-> tac, tima |-> tima, tma |-> tma,
                           ie0 |-> ie0, ime0 |-> ime0, sp0 |-> sp0],
                  timer |-> mmu.timer, pending |-> 0, cycles |-> 0,
                  tick |-> [timer |-> mmu.timer, ints |-> 0],
                  pre |-> DispatchView(cpu, mmu), post |-> DispatchView(cpu, mmu),
                  handled |-> 0, err |-> "none"]

(* obs.timer and obs.pending: the timer and IF before the step; obs.tick:  *)
(* what the step's first call of Timer::cycle returned                     *)
TimerStep ==
    /\ obs.kind # "panic"
    /\ obs.steps < MaxTimerSteps
    /\ \E r \in {MmuStep(cpu, mmu, build.overflow_checks)} :
          /\ IF r.err = "none"
             THEN cpu' = r.cpu /\ mmu' = r.mmu
             ELSE UNCHANGED <<cpu, mmu>>
          /\ obs' = [obs EXCEPT !.kind = IF r.err = "none" THEN "step" ELSE "panic",
                                !.steps = obs.steps + 1,
                                !.timer = mmu.timer, !.pending = mmu.interrupts,
                                !.cycles = r.cycles,
                                !.tick = TimerCycle(mmu.timer, r.cycles),
                                !.pre = r.pre, !.post = r.post, !.handled = r.handled,
                                !.err = r.err]
    /\ UNCHANGED <<fs, build>>

NextTimer == TimerStep

SpecTimer == InitTimer /\ [][NextTimer]_vars

(* the call increments TIMA: a tick of four M-cycles completes and the     *)
(* selected number of ticks has passed                                     *)
TimaIncremented ==
    /\ obs.timer.enabled
    /\ obs.timer.sub + obs.cycles >= 4
    /\ obs.timer.step_sub + 1 >= <<64, 1, 4, 16>>[obs.timer.speed + 1]

TimaOverflowed == TimaIncremented /\ obs.timer.counter = 255

(* TAC = 0x05, TIMA = 0xFF, TMA = 0, IE = 0x04, IME Enabled, NOPs *)
TimerScenario ==
    /\ obs.scn.prog = 1 /\ obs.scn.tac = 5 /\ obs.scn.tima = 255 /\ obs.scn.tma = 0
    /\ obs.scn.ie0 = 4 /\ obs.scn.ime0 = "Enabled"

(* C16: Timer::cycle returns the Timer interrupt, reloads TIMA with TMA    *)
(* and the interrupt is OR-ed into pending exactly when the timer is       *)
(* enabled and TIMA is incremented from 0xFF; in the scenario the fourth   *)
(* NOP sets Timer pending and the same step dispatches to 0x0050, pushes   *)
(* the return PC and clears the Timer bit.                                 *)
C16_TimerOverflow ==
    /\ obs.kind = "step" =>
          /\ obs.tick.ints = IF TimaOverflowed THEN Interrupts.TIMER ELSE 0
          /\ TimaOverflowed => obs.tick.timer.counter = obs.timer.modulo
          /\ (TimaIncremented /\ ~TimaOverflowed)
                => obs.tick.timer.counter = obs.timer.counter + 1
          /\ ~TimaIncremented => obs.tick.timer.counter = obs.timer.counter
          /\ obs.pre.pending = IntInsert(obs.pending, obs.tick.ints)
    /\ TimerScenario =>
          /\ obs.kind # "panic"
          /\ obs.steps < 4 =>
                /\ cpu.pc = EntryPoint + obs.steps /\ mmu.interrupts = 0
                /\ mmu.timer.counter = 255
          /\ obs.steps = 4 =>
                /\ obs.pre.pending = Interrupts.TIMER /\ obs.handled = Interrupts.TIMER
                /\ cpu.pc = 80 /\ cpu.sp = obs.scn.sp0 - 2
                /\ MmuRead(mmu, cpu.sp) = Ok(4) /\ MmuRead(mmu, cpu.sp + 1) = Ok(1)
                /\ mmu.interrupts = 0 /\ cpu.interrupt_state = "Disabled"

C16_Witness ==
    /\ TimerScenario /\ obs.steps = 4 /\ obs.kind = "step"
    /\ obs.tick.ints = Interrupts.TIMER /\ cpu.pc = 80 /\ mmu.interrupts = 0

(***************************************************************************)
(* SpecReset: a new Device (device.rs 32-42) stepped through the head of   *)
(* the boot ROM and a program that maps the boot ROM out, enables the      *)
(* interrupts and halts, with Device::reset (device.rs 44-48) called       *)
(* between the steps.                                                      *)
(***************************************************************************)
MaxResetSteps == 8

(* Cpu::reset: the eight registers and PC *)
CpuReset(c) ==
    [c EXCEPT !.a = 0, !.b = 0, !.c = 0, !.d = 0, !.e = 0, !.h = 0, !.l = 0, !.f = 0,
              !.pc = 0]

(* Device::reset *)
DeviceReset(c, m) ==
    [cpu |-> CpuReset(c), mmu |-> [m EXCEPT !.gpu = GpuReset(m.gpu), !.use_bios = TRUE]]

(* LD A,1; LDH (0x50),A; EI; HALT behind the head of the boot ROM: the     *)
(* boot ROM of the model is NOP from its seventh byte on                   *)
ResetProg == <<62, 1, 224, 80, 251, 118>>

InitReset ==
    /\ cpu = CpuNew
    /\ mmu = MmuNew(CartridgeNew(RomImage(2, 0, 0, 195, ResetProg)), GpuNew)
    /\ fs = NoFile
    /\ build \in Builds
    /\ obs = [kind |-> "new", steps |-> 0, err |-> "none", before |-> cpu]

(* the debugger's jump: the client sets PC through Device::cpu_mut *)
ResetJump ==
    /\ obs.kind # "panic"
    /\ cpu.pc # EntryPoint
    /\ cpu' = [cpu EXCEPT !.pc = EntryPoint]
    /\ obs' = [obs EXCEPT !.kind = "jump", !.before = cpu]
    /\ UNCHANGED <<mmu, fs, build>>

ResetRun ==
    /\ obs.kind # "panic"
    /\ obs.steps < MaxResetSteps
    /\ \E r \in {MmuStep(cpu, mmu, build.overflow_checks)} :
          /\ IF r.err = "none"
             THEN cpu' = r.cpu /\ mmu' = r.mmu
             ELSE UNCHANGED <<cpu, mmu>>
          /\ obs' = [kind |-> IF r.err = "none" THEN "step" ELSE "panic",
                     steps |-> obs.steps + 1, err |-> r.err, before |-> cpu]
    /\ UNCHANGED <<fs, build>>

ResetStep ==
    /\ obs.kind # "panic"
    /\ \E d \in {DeviceReset(cpu, mmu)} :
          /\ cpu' = d.cpu
          /\ mmu' = d.mmu
    /\ obs' = [obs EXCEPT !.kind = "reset", !.before = cpu]
    /\ UNCHANGED <<fs, build>>

NextReset == ResetJump \/ ResetRun \/ ResetStep

SpecReset == InitReset /\ [][NextReset]_vars

(* C17: after Device::reset the eight 8-bit registers, SP and PC are 0,    *)
(* the interrupt-master state is Disabled, halted is false and the boot    *)
(* ROM overlay is on.                                                      *)
C17_DeviceReset ==
    obs.kind = "reset" =>
        /\ cpu.a = 0 /\ cpu.b = 0 /\ cpu.c = 0 /\ cpu.d = 0 /\ cpu.e = 0 /\ cpu.h = 0
        /\ cpu.l = 0 /\ cpu.f = 0 /\ cpu.sp = 0 /\ cpu.pc = 0
        /\ cpu.interrupt_state = "Disabled" /\ ~cpu.halted
        /\ mmu.use_bios

(***************************************************************************)
(* SpecPpu: Gpu::cycle (gpu.rs 122-219) called with the T-cycles of one    *)
(* instruction, from construction, with Device::reset between the calls    *)
(* and the STAT interrupt sources all off or all on.  The observation      *)
(* follows the current line: obs.lineT is the T-cycles of the line so far, *)
(* obs.seen the modes it has been in, obs.marks the T-cycles at which it   *)
(* left each of them; obs.ended is that record for the line before, with   *)
(* its length, and obs.fresh tells a line begun by construction or reset.  *)
(***************************************************************************)
PpuStats == {0, 120}

NoLine == [line |-> -1, modes |-> <<>>, marks |-> <<>>, t |-> 0, fresh |-> FALSE]

PpuView(g) == [mode |-> g.mode, line |-> g.line]

InitPpu ==
    /\ cpu = CpuNew
    /\ \E stat \in PpuStats : mmu = MmuAfter(MmuNew(PlainCart, GpuNew), 65345, stat)
    /\ fs = NoFile
    /\ build = DevBuild
    /\ obs = [kind |-> "new", cycles |-> 0, frame |-> FALSE, ints |-> 0,
              before |-> PpuView(mmu.gpu), lineT |-> 0, seen |-> <<mmu.gpu.mode>>,
              marks |-> <<>>, ended |-> NoLine, fresh |-> TRUE]

(* the record of the line after a call that took the unit from pre to post *)
PpuTrack(o, pre, post, c) ==
    IF post.line # pre.line
    THEN [o EXCEPT !.lineT = post.mode_cycles, !.seen = <<post.mode>>, !.marks = <<>>,
                   !.ended = [line |-> pre.line, modes |-> o.seen, marks |-> o.marks,
                              t |-> o.lineT + c - post.mode_cycles, fresh |-> o.fresh],
                   !.fresh = FALSE]
    ELSE IF post.mode # pre.mode
    THEN [o EXCEPT !.lineT = o.lineT + c, !.seen = Append(o.seen, post.mode),
                   !.marks = Append(o.marks, o.lineT + c - post.mode_cycles)]
    ELSE [o EXCEPT !.lineT = o.lineT + c]

PpuCycleStep(c) ==
    /\ obs.kind # "panic"
    /\ \E r \in {GpuCycle(mmu.gpu, c, build.overflow_checks)} :
          /\ mmu' = IF r.err = "none" THEN [mmu EXCEPT !.gpu = r.gpu] ELSE mmu
          /\ obs' = IF r.err # "none" THEN [obs EXCEPT !.kind = "panic"]
                    ELSE [PpuTrack(obs, mmu.gpu, r.gpu, c) EXCEPT
                             !.kind = "cycle", !.cycles = c, !.frame = r.frame,
                             !.ints = r.ints, !.before = PpuView(mmu.gpu)]
    /\ UNCHANGED <<cpu, fs, build>>

PpuResetStep ==
    /\ obs.kind # "panic"
    /\ \E d \in {DeviceReset(cpu, mmu)} :
          /\ cpu' = d.cpu
          /\ mmu' = d.mmu
          /\ obs' = [kind |-> "reset", cycles |-> 0, frame |-> FALSE, ints |-> 0,
                     before |-> PpuView(mmu.gpu), lineT |-> 0, seen |-> <<d.mmu.gpu.mode>>,
                     marks |-> <<>>, ended |-> NoLine, fresh |-> TRUE]
    /\ UNCHANGED <<fs, build>>

NextPpu ==
    \/ \E c \in InstrTCycles : PpuCycleStep(c)
    \/ PpuResetStep

SpecPpu == InitPpu /\ [][NextPpu]_vars

(* the mode changes of Gpu::cycle, and the line with them *)
PpuTransition(pre, post) ==
    \/ post = pre
    \/ pre.mode = "OamRead" /\ post.mode = "VramRead" /\ post.line = pre.line
    \/ pre.mode = "VramRead" /\ post.mode = "HBlank" /\ post.line = pre.line
    \/ pre.mode = "HBlank" /\ post.mode = "OamRead" /\ post.line = pre.line + 1
                           /\ post.line <= 143
    \/ pre.mode = "HBlank" /\ post.mode = "VBlank" /\ pre.line = 143 /\ post.line = 144
    \/ pre.mode = "VBlank" /\ post.mode = "VBlank" /\ post.line = pre.line + 1
                           /\ post.line <= 153
    \/ pre.mode = "VBlank" /\ post.mode = "OamRead" /\ pre.line = 153 /\ post.line = 0

(* a whole line: OamRead for 80 T, VramRead for 172 T, HBlank for 204 T on *)
(* the lines 0..143, VBlank on the lines 144..153, 456 T each              *)
WholeLine(e) ==
    /\ e.line \in 0..143 =>
          e.modes = <<"OamRead", "VramRead", "HBlank">> /\ e.marks = <<80, 80 + 172>>
    /\ e.line \in 144..153 => e.modes = <<"VBlank">> /\ e.marks = <<>>
    /\ e.t = 456

PpuModes ==
    /\ mmu.gpu.line \in 0..153
    /\ mmu.gpu.mode = "VBlank" <=> mmu.gpu.line >= 144
    /\ obs.kind = "cycle" => PpuTransition(obs.before, PpuView(mmu.gpu))

(* C18: from construction and after reset every visible line passes        *)
(* through OamRead (80 T), VramRead (172 T) and HBlank (204 T) in that     *)
(* order, 456 T in all, followed by VBlank on the lines 144..153 of 456 T  *)
(* each; no other mode transition occurs and line 0 follows line 153.      *)
C18_ModeSequence ==
    /\ PpuModes
    /\ obs.ended.line # -1 => WholeLine(obs.ended)

(* C18 amended: so for every line but the one construction or reset        *)
(* begins: that one is line 0 in HBlank from its first T-cycle and ends    *)
(* after 204 T, without OamRead and VramRead.                              *)
C18_ModeSequenceAmended ==
    /\ PpuModes
    /\ obs.ended.line # -1 =>
          IF obs.ended.fresh
          THEN /\ obs.ended.line = 0 /\ obs.ended.modes = <<"HBlank">>
               /\ obs.ended.marks = <<>> /\ obs.ended.t = 204
          ELSE WholeLine(obs.ended)
    /\ obs.fresh => mmu.gpu.line = 0 /\ mmu.gpu.mode = "HBlank"

(* line 153 has ended after 456 T: line 0 follows in OamRead *)
C18_Witness ==
    /\ obs.kind = "cycle" /\ obs.ended.line = 153 /\ ~obs.ended.fresh
    /\ obs.ended.t = 456 /\ mmu.gpu.line = 0 /\ mmu.gpu.mode = "OamRead"
    /\ obs.before = [mode |-> "VBlank", line |-> 153]

EntersVBlank ==
    obs.before.mode = "HBlank" /\ mmu.gpu.mode = "VBlank" /\ mmu.gpu.line = 144

(* C19: Gpu::cycle returns frame_done = true in exactly the calls in which *)
(* the mode changes from HBlank to VBlank with the line becoming 144, and  *)
(* in exactly those calls VBLANK is among the new interrupts.              *)
C19_FrameDone ==
    obs.kind = "cycle" =>
        /\ obs.frame <=> EntersVBlank
        /\ IntContains(obs.ints, Interrupts.VBLANK) <=> EntersVBlank

(* with every STAT source on, the call returns LCD_STAT beside VBLANK *)
C19_Witness ==
    /\ obs.kind = "cycle" /\ obs.frame /\ EntersVBlank
    /\ obs.ints = Interrupts.VBLANK + Interrupts.LCD_STAT
    /\ obs.before.line = 143

(***************************************************************************)
(* SpecRam: the external RAM of MBC1 cartridges without RAM, with 8 KiB    *)
(* and with 32 KiB, under Cartridge::write and Cartridge::read             *)
(* (cartridge.rs 179-236) of the RAM-enable register, the ROM bank         *)
(* register and both ends of the RAM window.  The RAM bank stays 0.        *)
(* obs.enabled follows the values written to 0x0000..0x1FFF, obs.shadow    *)
(* the bytes written to the window while obs.enabled, and obs.phase counts *)
(* the stages store (1), disable (2), write while disabled (3),            *)
(* re-enable (4) at 0xA000.                                                *)
(***************************************************************************)
RamCarts ==
    { CartridgeNew(RomImage(4, 1, 0, 195, <<>>)), Mbc1Cart,
      CartridgeNew(RomImage(4, 3, 3, 195, <<>>)) }

RamWindow == 40960..49151

RamAddrs == {0, 8191, 8192, 40960, 49151}

RamValues == {0, 10, 11, 26, 66, 255}

InitRam ==
    /\ cpu = CpuNew
    /\ \E c \in RamCarts : mmu = MmuNew(c, GpuNew)
    /\ fs = NoFile
    /\ build = DevBuild
    /\ obs = [kind |-> "new", address |-> 0, value |-> 0, res |-> Ok(0),
              was |-> FALSE, enabled |-> FALSE, before |-> mmu.cart.ram,
              shadow |-> [a \in RamAddrs \cap RamWindow |-> 0], phase |-> 0]

RamPhase(phase, enabled, address, value) ==
    CASE address = 40960 /\ enabled /\ value # 0 -> 1
      [] address = 40960 /\ ~enabled /\ phase \in {2, 3} -> 3
      [] address <= 8191 /\ value % 16 # 10 /\ phase = 1 -> 2
      [] address <= 8191 /\ value % 16 = 10 /\ phase = 3 -> 4
      [] address <= 8191 /\ value % 16 = 10 /\ phase = 2 -> 1
      [] address <= 8191 /\ value % 16 # 10 /\ phase = 4 -> 2
      [] OTHER -> phase

RamWriteStep(address, value) ==
    /\ mmu' = [mmu EXCEPT !.cart = CartWrite(mmu.cart, address, value)]
    /\ obs' = [kind |-> "write", address |-> address, value |-> value, res |-> Ok(0),
               was |-> obs.enabled,
               enabled |-> IF address <= 8191 THEN value % 16 = 10 ELSE obs.enabled,
               before |-> mmu.cart.ram,
               shadow |-> IF address \in RamWindow /\ obs.enabled
                          THEN [obs.shadow EXCEPT ![address] = value]
                          ELSE obs.shadow,
               phase |-> RamPhase(obs.phase, obs.enabled, address, value)]
    /\ UNCHANGED <<cpu, fs, build>>

RamReadStep(address) ==
    /\ obs' = [obs EXCEPT !.kind = "read", !.address = address, !.value = 0,
                          !.res = CartRead(mmu.cart, address), !.was = obs.enabled,
                          !.before = mmu.cart.ram]
    /\ UNCHANGED <<cpu, mmu, fs, build>>

NextRam ==
    \/ \E address \in RamAddrs, value \in RamValues : RamWriteStep(address, value)
    \/ \E address \in RamAddrs \cap RamWindow : RamReadStep(address)

SpecRam == InitRam /\ [][NextRam]_vars

(* C20: enable_ram is false at first and after a write to 0x0000..0x1FFF   *)
(* it is (value & 0x0F) = 0x0A; while it is false a read of the RAM window *)
(* gives 0xFF and a write to it leaves the RAM buffer as it was; a byte    *)
(* stored while enabled is read back after disable, write, re-enable.      *)
C20_RamGating ==
    /\ mmu.cart.mbc.enable_ram = obs.enabled
    /\ (obs.kind = "write" /\ obs.address <= 8191) =>
          mmu.cart.mbc.enable_ram = (obs.value % 16 = 10)
    /\ (obs.kind = "read" /\ ~obs.enabled) => obs.res = Ok(255)
    /\ (obs.kind = "write" /\ obs.address \in RamWindow /\ ~obs.was) =>
          mmu.cart.ram = obs.before
    /\ (obs.kind = "read" /\ obs.enabled) =>
          obs.res = Ok(IF mmu.cart.ram.len = 0 THEN 255 ELSE obs.shadow[obs.address])

(* 0x42 stored at 0xA000, RAM disabled, a byte written there, RAM enabled  *)
(* again: 0x42 is read                                                     *)
C20_Witness ==
    /\ obs.kind = "read" /\ obs.address = 40960 /\ obs.phase = 4 /\ obs.enabled
    /\ obs.shadow[40960] = 66 /\ obs.res = Ok(66)
    /\ mmu.cart.ram.len = 8192

(***************************************************************************)
(* SpecFrame: Device::step_frame (device.rs 50-52), the loop               *)
(* `while !self.step() {}`, over a run of NOPs, a JP loop and a HALT that  *)
(* no interrupt ends, with the VBlank interrupt off or on.  obs.frames     *)
(* counts the steps that returned true.                                    *)
(***************************************************************************)
MaxFrames == 1

(* all NOP; JP 0x0100; HALT *)
FrameProgs == << <<>>, <<195, 0, 1>>, <<118>> >>

(* program, interrupt enable register, interrupt master enable *)
FrameStarts ==
    {<<1, 0, "Disabled">>, <<2, 0, "Disabled">>, <<2, 1, "Enabled">>,
     <<3, 0, "Disabled">>, <<3, 1, "Disabled">>, <<3, 1, "Enabled">>}

InitFrame ==
    \E s \in FrameStarts, p \in DOMAIN FrameProgs, ie0 \in {0, 1},
       ime0 \in {"Disabled", "Enabled"} :
        /\ s = <<p, ie0, ime0>>
        /\ cpu = [CpuNew EXCEPT !.pc = EntryPoint, !.sp = 65534, !.interrupt_state = ime0]
        /\ mmu = MmuAfter(MmuRunning(FrameProgs[p]), 65535, ie0)
        /\ fs = NoFile
        /\ build = DevBuild
        /\ obs = [kind |-> "new", prog |-> p, frame |-> FALSE, frames |-> 0]

(* the program's state after one call of step *)
FrameAfter(c, m, o, oc) ==
    LET after(r) ==
            [cpu |-> IF r.err = "none" THEN r.cpu ELSE c,
             mmu |-> IF r.err = "none" THEN r.mmu ELSE m,
             obs |-> [o EXCEPT !.kind = IF r.err = "none" THEN "step" ELSE "panic",
                               !.frame = r.frame,
                               !.frames = o.frames + (IF r.frame THEN 1 ELSE 0)]]
    IN after(MmuStep(c, m, oc))

(* one turn of the loop; the loop is left when step returned true *)
FrameStep ==
    /\ obs.kind # "panic"
    /\ obs.frames < MaxFrames
    /\ \E a \in {FrameAfter(cpu, mmu, obs, build.overflow_checks)} :
          cpu' = a.cpu /\ mmu' = a.mmu /\ obs' = a.obs
    /\ UNCHANGED <<fs, build>>

NextFrame == FrameStep

SpecFrame == InitFrame /\ [][NextFrame]_vars

(* ENABLED <<NextFrame>>_vars, computed: the loop is running and the call  *)
(* of step changes the state                                               *)
FrameEnabled ==
    /\ obs.kind # "panic"
    /\ obs.frames < MaxFrames
    /\ FrameAfter(cpu, mmu, obs, build.overflow_checks)
          # [cpu |-> cpu, mmu |-> mmu, obs |-> obs]

(* The loop keeps calling step: weak fairness of NextFrame, WF_vars(NextFrame), *)
(* written out with FrameEnabled for its ENABLED.                               *)
FrameFair == []<>(~FrameEnabled) \/ []<><<NextFrame>>_vars

SpecFrameLive == SpecFrame /\ FrameFair

(* C21: step_frame terminates: repeating step returns true after finitely  *)
(* many steps, also when the CPU is halted and no enabled interrupt ever    *)
(* becomes pending.                                                         *)
C21_StepFrameTerminates ==
    \A n \in 0..(MaxFrames - 1) : (obs.frames = n) ~> (obs.frames = n + 1 /\ obs.frame)

(* a halted CPU with every interrupt disabled: the step returns true *)
C21_Witness ==
    /\ obs.kind = "step" /\ obs.frame /\ obs.frames = 1 /\ cpu.halted
    /\ mmu.interrupts_enabled = 0 /\ mmu.gpu.line = 144

(***************************************************************************)
(* SpecRead: Cartridge::read on the ranges the bus sends to the cartridge  *)
(* (mmu.rs 153-155), for ROMs of several lengths whose banks carry a mark  *)
(* each, with the bank registers set through Cartridge::write.             *)
(***************************************************************************)
(* offsets inside a bank that carry a mark *)
BankProbes == {1, 16383}

(* the byte of bank k at a probe *)
BankMark(k, off) == IF off = 1 THEN k + 1 ELSE 255 - k

BankedRom(banks, type, ramCode) ==
    LET header(o) == IF o = HeaderType THEN type ELSE ramCode
        marks == {k * RomBankSize + off : k \in 0..(banks - 1), off \in BankProbes}
    IN  Vec(banks * RomBankSize,
            [o \in {h \in {HeaderType, HeaderRamSize} : header(h) # 0} \cup marks |->
                IF o \in marks THEN BankMark(o \div RomBankSize, o % RomBankSize)
                ELSE header(o)])

(* banks, cartridge type, RAM size code *)
ReadShapes ==
    {<<2, 0, 0>>, <<4, 0, 0>>, <<2, 1, 0>>, <<3, 1, 2>>, <<4, 2, 3>>, <<8, 1, 2>>,
     <<128, 3, 3>>, <<4, 19, 2>>, <<8, 19, 0>>}

(* both ends of the two ROM windows and of the external RAM window *)
ReadAddrs == {1, 16383, 16385, 32767, 40960, 49151}

(* RAM enable, bank1, bank2 and mode registers *)
ReadRegs == {0, 8192, 16384, 24576}

ReadValues == {0, 1, 2, 3, 5, 10, 31}

InitRead ==
    /\ cpu = CpuNew
    /\ \E s \in ReadShapes : mmu = MmuNew(CartridgeNew(BankedRom(s[1], s[2], s[3])), GpuNew)
    /\ fs = NoFile
    /\ build = DevBuild
    /\ obs = [kind |-> "new", address |-> 0, value |-> 0, res |-> Ok(0)]

BankWriteStep(address, value) ==
    /\ mmu' = [mmu EXCEPT !.cart = CartWrite(mmu.cart, address, value)]
    /\ obs' = [kind |-> "write", address |-> address, value |-> value, res |-> Ok(0)]
    /\ UNCHANGED <<cpu, fs, build>>

BankReadStep(address) ==
    /\ obs' = [kind |-> "read", address |-> address, value |-> 0,
               res |-> CartRead(mmu.cart, address)]
    /\ UNCHANGED <<cpu, mmu, fs, build>>

NextRead ==
    \/ \E address \in ReadRegs, value \in ReadValues : BankWriteStep(address, value)
    \/ \E address \in ReadAddrs : BankReadStep(address)

SpecRead == InitRead /\ [][NextRead]_vars

(* C22 as stated: a cartridge read of an address in 0x0000..0x7FFF or      *)
(* 0xA000..0xBFFF returns a byte, whatever the controller, the ROM length, *)
(* the RAM size and the bank state; it never indexes outside its buffers.  *)
C22_ReadTotal == obs.kind = "read" => obs.res.err = "none"

(* the ROM byte at an index, from the marks *)
RomByte(index) == BankMark(index \div RomBankSize, index % RomBankSize)

(* C30: an MBC1 read of a in 0x4000..0x7FFF gives                          *)
(* ROM[(((bank2<<5)|bank1)*0x4000 + (a & 0x3FFF)) mod len] and a read of a *)
(* in 0x0000..0x3FFF gives ROM[((mode ? bank2<<5 : 0)*0x4000 + (a &        *)
(* 0x3FFF)) mod len], for every bank1, bank2, mode and ROM length.         *)
C30_MBC1RomMapping ==
    LET s == mmu.cart.mbc
        len == mmu.cart.bytes.len
        a == obs.address
    IN  obs.kind = "read" /\ s.kind = "MBC1" /\ a <= 32767 =>
          /\ obs.res.err = "none"
          /\ a >= 16384 =>
                obs.res.val = RomByte(((s.bank2 * 32 + s.bank1) * 16384 + (a % 16384)) % len)
          /\ a <= 16383 =>
                obs.res.val = RomByte(((IF s.ram_mode THEN s.bank2 * 32 ELSE 0) * 16384
                                        + (a % 16384)) % len)

(* mode 1, bank2 = 1 on a 128-bank ROM: the lower window shows bank 32; *)
(* and bank 5 of a 3-bank ROM wraps to bank 2                            *)
C30_Witness ==
    /\ obs.kind = "read" /\ mmu.cart.mbc.kind = "MBC1"
    /\ \/ /\ mmu.cart.bytes.len = 128 * RomBankSize
          /\ mmu.cart.mbc.ram_mode /\ mmu.cart.mbc.bank2 = 1
          /\ obs.address = 1 /\ obs.res = Ok(33)
       \/ /\ mmu.cart.bytes.len = 3 * RomBankSize
          /\ mmu.cart.mbc.bank1 = 5 /\ mmu.cart.mbc.bank2 = 0
          /\ obs.address = 32767 /\ obs.res = Ok(253)

(***************************************************************************)
(* SpecDiv: Timer::cycle called with 1 to 6 M-cycles at a time from a new  *)
(* timer whose TAC was written once; SpecDivWrite adds the write of DIV    *)
(* (0xFF04).  obs.n is the sum of the arguments, obs.divs and obs.timas    *)
(* count the increments of DIV and TIMA, obs.ints the calls that returned  *)
(* the Timer interrupt; all are counted from the start or the last write   *)
(* of DIV.                                                                 *)
(***************************************************************************)
MaxElapsed == 260

MaxWriteElapsed == 70

MaxDivWrites == 1

(* disabled at speed 00 and 11; enabled at each speed *)
DivTacs == {0, 3, 4, 5, 6, 7}

DivValues == {0, 171}

DivObs(limit, t) ==
    [kind |-> "new", n |-> 0, divs |-> 0, timas |-> 0, ints |-> 0, writes |-> 0,
     limit |-> limit, pre |-> t]

InitDiv ==
    /\ cpu = CpuNew
    /\ \E tac \in DivTacs : mmu = MmuAfter(MmuNew(PlainCart, GpuNew), 65287, tac)
    /\ fs = NoFile
    /\ build = DevBuild
    /\ obs = DivObs(MaxElapsed, mmu.timer)

InitDivWrite ==
    /\ cpu = CpuNew
    /\ \E tac \in {0, 5} : mmu = MmuAfter(MmuNew(PlainCart, GpuNew), 65287, tac)
    /\ fs = NoFile
    /\ build = DevBuild
    /\ obs = DivObs(MaxWriteElapsed, mmu.timer)

DivCycleStep(cycles) ==
    /\ obs.n + cycles <= obs.limit
    /\ \E r \in {TimerCycle(mmu.timer, cycles)} :
          /\ mmu' = [mmu EXCEPT !.timer = r.timer]
          /\ obs' = [obs EXCEPT
                        !.kind = "cycle",
                        !.n = obs.n + cycles,
                        !.divs = obs.divs
                                   + (IF r.timer.divider # mmu.timer.divider THEN 1 ELSE 0),
                        !.timas = obs.timas
                                   + (IF r.timer.counter # mmu.timer.counter \/ r.ints # 0
                                      THEN 1 ELSE 0),
                        !.ints = obs.ints + (IF r.ints # 0 THEN 1 ELSE 0),
                        !.pre = mmu.timer]
    /\ UNCHANGED <<cpu, fs, build>>

(* a bus write to 0xFF04 *)
DivWriteStep(value) ==
    /\ obs.writes < MaxDivWrites
    /\ \E r \in {MmuWrite(mmu, 65284, value)} :
          /\ mmu' = r.mmu
          /\ obs' = [obs EXCEPT !.kind = "write", !.n = 0, !.divs = 0, !.timas = 0,
                                !.ints = 0, !.writes = obs.writes + 1,
                                !.pre = mmu.timer]
    /\ UNCHANGED <<cpu, fs, build>>

NextDiv == \E cycles \in 1..MaxMCycles : DivCycleStep(cycles)

NextDivWrite ==
    \/ \E cycles \in 1..MaxMCycles : DivCycleStep(cycles)
    \/ \E value \in DivValues : DivWriteStep(value)

SpecDiv == InitDiv /\ [][NextDiv]_vars

SpecDivWrite == InitDivWrite /\ [][NextDivWrite]_vars

(* C27 as stated: once the arguments of Timer::cycle, each 1..6, sum to N, *)
(* DIV has been incremented exactly floor(N/64) times, however N is split   *)
(* into calls and whether the timer is enabled or not.                      *)
C27_DivRate == obs.kind = "cycle" => obs.divs = obs.n \div 64

(* M-cycles per TIMA increment for TAC speeds 00, 01, 10, 11 *)
TimaPeriod(speed) == <<256, 4, 16, 64>>[speed + 1]

(* C28 as stated: while enabled TIMA is incremented once per 256, 4, 16,   *)
(* 64 M-cycles for speeds 00, 01, 10, 11 however the cycles are split into *)
(* calls of 1..6; while disabled Timer::cycle never changes TIMA and never *)
(* returns the Timer interrupt.                                            *)
C28_TimaRate ==
    obs.kind = "cycle" =>
        IF mmu.timer.enabled
        THEN obs.timas = obs.n \div TimaPeriod(mmu.timer.speed)
        ELSE obs.timas = 0 /\ obs.ints = 0

(* C29 as stated: a bus write of any value to 0xFF04 sets DIV to 0 and     *)
(* resets the timer's sub-cycle accumulators, so that the next increment   *)
(* of DIV comes exactly 64 M-cycles later, and it leaves TIMA, TMA, the    *)
(* speed and the enabled flag as they were.                                *)
C29_DivWrite ==
    /\ obs.kind = "write" =>
          /\ mmu.timer.divider = 0
          /\ mmu.timer.sub = 0 /\ mmu.timer.div_sub = 0
          /\ mmu.timer.counter = obs.pre.counter
          /\ mmu.timer.modulo = obs.pre.modulo
          /\ mmu.timer.speed = obs.pre.speed
          /\ mmu.timer.enabled = obs.pre.enabled
    /\ obs.kind = "cycle" /\ obs.writes > 0 => (obs.divs = (IF obs.n >= 64 THEN 1 ELSE 0))

(***************************************************************************)
(* SpecWake: Mmu::step around HALT and EI with the timer about to          *)
(* overflow.  obs.was is the CPU and IF before the step, obs.op the opcode *)
(* the step executed (-1 when the CPU was halted), obs.gpu1 / obs.timer1   *)
(* the T-cycles and M-cycles by which the first pair of ticks moved the    *)
(* PPU and the Timer, obs.gpu2 / obs.timer2 those of the pair after a      *)
(* dispatch, obs.prev what the step before did.                            *)
(***************************************************************************)
MaxWakeSteps == 8

(* HALT, JR NZ -3; HALT, JR Z -3; three NOPs and EI followed by NOP, EI,   *)
(* DI and HALT                                                             *)
WakeProgs ==
    << <<118, 32, 253>>, <<118, 40, 253>>, <<0, 0, 0, 251, 0>>, <<0, 0, 0, 251, 251, 0>>,
       <<0, 0, 0, 251, 243, 0>>, <<0, 0, 0, 251, 118>> >>

WakeTacs == {1, 5}

WakeTimas == {254, 255}

WakeEnables == {0, 4}

(* the PPU's position in the frame, in T-cycles *)
GpuTime(g) ==
    g.line * VBlankLineLen + g.mode_cycles
      + (CASE g.mode = "OamRead" -> 0
           [] g.mode = "VramRead" -> OamReadLen
           [] g.mode = "HBlank" -> OamReadLen + VramReadLen
           [] g.mode = "VBlank" -> 0)

(* the Timer's position in the period of DIV, in M-cycles *)
TimerTime(t) == t.sub + 4 * t.div_sub + 64 * t.divider

GpuAdvance(g0, g1) == (GpuTime(g1) - GpuTime(g0)) % FrameT

TimerAdvance(t0, t1) == (TimerTime(t1) - TimerTime(t0)) % 16384

WakeView(c, m) ==
    [pc |-> c.pc, sp |-> c.sp, ime |-> c.interrupt_state, halted |-> c.halted,
     pending |-> m.interrupts]

InitWake ==
    \E p \in DOMAIN WakeProgs, tac \in WakeTacs, tima \in WakeTimas, ie0 \in WakeEnables,
       ime0 \in {"Disabled", "Enabled"} :
        /\ cpu = [CpuNew EXCEPT !.pc = EntryPoint, !.sp = 65534, !.interrupt_state = ime0]
        /\ mmu = MmuAfter(MmuAfter(MmuAfter(MmuRunning(WakeProgs[p]), 65287, tac),
                                   65285, tima), 65535, ie0)
        /\ fs = NoFile
        /\ build = DevBuild
        /\ obs = [kind |-> "new", steps |-> 0, op |-> -1, was |-> WakeView(cpu, mmu),
                  cycles |-> 0, pre |-> DispatchView(cpu, mmu), enabled |-> ie0,
                  post |-> DispatchView(cpu, mmu), dcycles |-> 0, handled |-> 0,
                  gpu1 |-> 0, timer1 |-> 0, gpu2 |-> 0, timer2 |-> 0,
                  prev |-> [op |-> -1, ime |-> ime0, raised |-> 0, handled |-> 0]]

WakeStep ==
    /\ obs.kind # "panic"
    /\ obs.steps < MaxWakeSteps
    /\ \E r \in {MmuStep(cpu, mmu, build.overflow_checks)} :
          /\ IF r.err = "none"
             THEN cpu' = r.cpu /\ mmu' = r.mmu
             ELSE UNCHANGED <<cpu, mmu>>
          /\ obs' = [kind |-> IF r.err = "none" THEN "step" ELSE "panic",
                     steps |-> obs.steps + 1,
                     op |-> IF cpu.halted THEN -1 ELSE MmuRead(mmu, cpu.pc).val,
                     was |-> WakeView(cpu, mmu),
                     cycles |-> r.cycles, pre |-> r.pre, enabled |-> r.enabled,
                     post |-> r.post, dcycles |-> r.dcycles, handled |-> r.handled,
                     gpu1 |-> GpuAdvance(mmu.gpu, r.ticked.gpu),
                     timer1 |-> TimerAdvance(mmu.timer, r.ticked.timer),
                     gpu2 |-> GpuAdvance(r.ticked.gpu, r.mmu.gpu),
                     timer2 |-> TimerAdvance(r.ticked.timer, r.mmu.timer),
                     prev |-> [op |-> obs.op, ime |-> obs.was.ime,
                               raised |-> And8(And8(obs.pre.pending, obs.enabled),
                                               255 - obs.was.pending),
                               handled |-> obs.handled]]
    /\ UNCHANGED <<fs, build>>

NextWake == WakeStep

SpecWake == InitWake /\ [][NextWake]_vars

(* the enabled interrupts that became pending during the step *)
Raised == And8(And8(obs.pre.pending, obs.enabled), 255 - obs.was.pending)

(* C23 as stated: an interrupt that becomes pending in the step in which   *)
(* EI executes with IME Disabled before it is not dispatched at the end of *)
(* that step; it stays pending and is dispatched at the end of the next    *)
(* step, provided the next instruction does not disable interrupts.        *)
C23_EiDelay ==
    /\ obs.kind = "step" /\ obs.op = 251 /\ obs.was.ime = "Disabled" /\ Raised # 0 =>
          /\ obs.handled = 0
          /\ And8(mmu.interrupts, Raised) = Raised
    /\ obs.kind = "step" /\ obs.prev.op = 251 /\ obs.prev.ime = "Disabled"
         /\ obs.prev.raised # 0 /\ obs.op # 243 =>
          obs.handled = obs.prev.raised

(* C24 as stated: a step that starts halted executes no instruction and    *)
(* idles for 4 T-cycles: before any dispatch the PPU is advanced by        *)
(* exactly 4 T-cycles and the Timer by exactly 1 M-cycle.                  *)
C24_HaltedIdle ==
    obs.kind = "step" /\ obs.was.halted =>
        /\ obs.pre.pc = obs.was.pc
        /\ obs.gpu1 = 4
        /\ obs.timer1 = 1

C26_WakeNoDispatch ==
    obs.kind = "step" /\ obs.was.halted /\ obs.was.ime = "Disabled"
      /\ And8(obs.pre.pending, obs.enabled) # 0 =>
        /\ ~cpu.halted
        /\ cpu.pc = obs.was.pc /\ cpu.sp = obs.was.sp
        /\ mmu.interrupts = obs.pre.pending
        /\ obs.handled = 0 /\ obs.dcycles = 0
        /\ obs.timer2 = 0 /\ obs.gpu2 = 0

(* the timer overflows during the halted step and wakes the CPU *)
C26_Witness ==
    /\ obs.kind = "step" /\ obs.was.halted /\ obs.was.ime = "Disabled"
    /\ obs.was.pending = 0 /\ obs.pre.pending = 4 /\ obs.enabled = 4
    /\ ~cpu.halted /\ mmu.interrupts = 4

(* C31 as stated: an enabled MBC1 access to a in 0xA000..0xBFFF uses the   *)
(* RAM offset ((mode ? bank2 : 0) * 0x2000 + (a & 0x1FFF)) mod RAM length, *)
(* so the byte written for bank b, address a is stored at that offset of   *)
(* the RAM buffer that save() writes out.                                  *)
C31_RamOffset ==
    LET s == mmu.cart.mbc
        ram == mmu.cart.ram
    IN  obs.kind = "write" /\ obs.was /\ obs.address \in RamWindow /\ ram.len > 0 =>
            ArrGet(ram.data, ((IF s.ram_mode THEN s.bank2 ELSE 0) * 8192
                                + (obs.address % 8192)) % ram.len) = obs.value

(* C32: a bus write to 0xFF44 returns the ReadOnly error and a bus write   *)
(* to 0x0000..0x00FF while the boot-ROM overlay is on returns the Illegal  *)
(* error, and either leaves the whole bus (PPU, cartridge registers and    *)
(* RAM, everything else) as it was.                                        *)
C32_ReadOnlyWrites ==
    [][ obs'.kind = "write" =>
          /\ obs'.address = 65348 => obs'.res.err = "ReadOnly" /\ mmu' = mmu
          /\ obs'.address <= 255 /\ mmu.use_bios => obs'.res.err = "Illegal" /\ mmu' = mmu
      ]_vars

(* a rejected write into the boot-ROM window of a cartridge with registers *)
C32_Witness ==
    /\ obs.kind = "write" /\ obs.address = 0 /\ obs.value = 255 /\ obs.res.err = "Illegal"
    /\ mmu.use_bios /\ mmu.cart.mbc.kind = "MBC1"

(***************************************************************************)
(* SpecTile: bus writes into the tile data, the tile maps and work RAM,    *)
(* from construction.  obs.before is the tile cache before the write.      *)
(***************************************************************************)
(* both bytes of the first row and the high byte of the last row of tile   *)
(* 0, the high byte of the last row of tile 383, the first byte of the     *)
(* tile maps and work RAM                                                  *)
TileAddrs == {32768, 32769, 32783, 38911, 38912, 49152}

TileValues == {0, 165, 255}

InitTile ==
    /\ cpu = CpuNew
    /\ mmu = MmuNew(PlainCart, GpuNew)
    /\ fs = NoFile
    /\ build = DevBuild
    /\ obs = [kind |-> "new", address |-> 0, value |-> 0, before |-> mmu.gpu.tiles]

TileWriteStep(address, value) ==
    /\ \E r \in {MmuWrite(mmu, address, value)} :
          /\ mmu' = r.mmu
          /\ obs' = [kind |-> "write", address |-> address, value |-> value,
                     before |-> mmu.gpu.tiles]
    /\ UNCHANGED <<cpu, fs, build>>

NextTile == \E address \in TileAddrs, value \in TileValues : TileWriteStep(address, value)

SpecTile == InitTile /\ [][NextTile]_vars

(* the cache keys of the rows the writes can reach and of their neighbours *)
TileKeys ==
    (DOMAIN mmu.gpu.tiles)
      \cup {t * 64 + x + 8 * y : t \in {0, 1, 382, 383}, x \in 0..7, y \in 0..7}

(* C33: for every tile t < 384, row y and column x the cached pixel is bit *)
(* (7-x) of VRAM[16t+2y] plus twice bit (7-x) of VRAM[16t+2y+1], hence in  *)
(* 0..3, after construction and after every bus write; a write to          *)
(* 0x9800..0x9FFF changes no tile.                                         *)
C33_TileCoherence ==
    /\ \A k \in TileKeys :
          LET t == k \div 64
              y == (k % 64) \div 8
              x == k % 8
          IN  /\ t < TileCount
              /\ TileGet(mmu.gpu.tiles, t, x, y)
                   = BitAt(ArrGet(mmu.gpu.vram, 16 * t + 2 * y), 7 - x)
                       + 2 * BitAt(ArrGet(mmu.gpu.vram, 16 * t + 2 * y + 1), 7 - x)
              /\ TileGet(mmu.gpu.tiles, t, x, y) \in 0..3
    /\ obs.kind = "write" /\ obs.address \in 38912..40959 => mmu.gpu.tiles = obs.before

(* the first row of tile 0 holds 0xA5 in its low and 0xFF in its high      *)
(* byte, the last row of tile 383 0xFF in its high byte                    *)
C33_Witness ==
    /\ obs.kind = "write" /\ obs.address = 38911 /\ obs.value = 255
    /\ ArrGet(mmu.gpu.vram, 0) = 165 /\ ArrGet(mmu.gpu.vram, 1) = 255
    /\ TileGet(mmu.gpu.tiles, 0, 0, 0) = 3 /\ TileGet(mmu.gpu.tiles, 0, 1, 0) = 2
    /\ TileGet(mmu.gpu.tiles, 383, 7, 7) = 2

(***************************************************************************)
(* SpecRender: Gpu::cycle through the first rendered lines of the first    *)
(* frame, with one sprite, a tile for it and LCDC and BGP as the program   *)
(* wrote them, and LCDC rewritten on the way.  obs.rendered tells that the *)
(* call went from VramRead to HBlank, obs.before is the framebuffer before *)
(* the call and obs.under the framebuffer as background and window left it *)
(* for the sprites.                                                        *)
(***************************************************************************)
MaxRenderSteps == 40

(* the T-cycles of a six-cycle instruction *)
RenderCycles == {24}

(* LCD off; LCD on with background, with sprites, with both *)
RenderLcdcs == {3, 129, 130, 131}

(* palette entry 0 is colour 0; palette entry 0 is colour 3 *)
RenderBgps == {0, 3}

(* sprite 0: on lines 1..8 and partly above the screen; at the left edge,  *)
(* partly off it, inside, and partly off the right edge                    *)
RenderSpriteYs == {17, 10}

RenderSpriteXs == {8, 4, 20, 164}

RenderAttrs == {0, 128}

(* tile 1: row 0 of colour 1, row 1 of colour 3 on the left half, row 7 of *)
(* colour 2                                                                *)
RenderTileBytes == << <<32784, 255>>, <<32786, 240>>, <<32787, 240>>, <<32799, 255>> >>

RECURSIVE MmuAfterAll(_, _)
MmuAfterAll(m, writes) ==
    IF writes = <<>> THEN m
    ELSE MmuAfterAll(MmuAfter(m, Head(writes)[1], Head(writes)[2]), Tail(writes))

InitRender ==
    \E lcdc \in RenderLcdcs, bgp \in RenderBgps, sy \in RenderSpriteYs,
       sx \in RenderSpriteXs, attr \in RenderAttrs :
        /\ cpu = CpuNew
        /\ mmu = MmuAfterAll(MmuNew(PlainCart, GpuNew),
                             RenderTileBytes
                               \o << <<65024, sy>>, <<65025, sx>>, <<65026, 1>>, <<65027, attr>>,
                                     <<65351, bgp>>, <<65344, lcdc>> >>)
        /\ fs = NoFile
        /\ build \in Builds
        /\ obs = [kind |-> "new", steps |-> 0, rendered |-> FALSE,
                  before |-> EmptyArr, under |-> EmptyArr, err |-> "none"]

(* the framebuffer after the background and window stages of a line *)
RenderUnder(g, before, oc) ==
    RenderScanline([g EXCEPT !.framebuffer = before,
                             !.lcd_control = g.lcd_control
                                               - And8(g.lcd_control, LcdControl.OBJ_ENABLE)],
                   oc).gpu.framebuffer

RenderCycleStep(c) ==
    /\ obs.kind # "panic"
    /\ obs.steps < MaxRenderSteps
    /\ \E r \in {GpuCycle(mmu.gpu, c, build.overflow_checks)} :
          /\ mmu' = IF r.err = "none" THEN [mmu EXCEPT !.gpu = r.gpu] ELSE mmu
          /\ obs' = [kind |-> IF r.err = "none" THEN "cycle" ELSE "panic",
                     steps |-> obs.steps + 1,
                     rendered |-> mmu.gpu.mode = "VramRead"
                                    /\ (r.err # "none" \/ r.gpu.mode = "HBlank"),
                     before |-> mmu.gpu.framebuffer,
                     under |-> IF r.err = "none" /\ mmu.gpu.mode = "VramRead"
                                  /\ r.gpu.mode = "HBlank"
                               THEN RenderUnder(r.gpu, mmu.gpu.framebuffer,
                                                build.overflow_checks)
                               ELSE mmu.gpu.framebuffer,
                     err |-> r.err]
    /\ UNCHANGED <<cpu, fs, build>>

(* a bus write to LCDC *)
LcdcWriteStep(value) ==
    /\ obs.kind # "panic"
    /\ \E r \in {MmuWrite(mmu, 65344, value)} :
          /\ mmu' = r.mmu
          /\ obs' = [obs EXCEPT !.kind = "write", !.rendered = FALSE,
                                !.before = mmu.gpu.framebuffer,
                                !.under = mmu.gpu.framebuffer]
    /\ UNCHANGED <<cpu, fs, build>>

NextRender ==
    \/ \E c \in RenderCycles : RenderCycleStep(c)
    \/ \E value \in RenderLcdcs : LcdcWriteStep(value)

SpecRender == InitRender /\ [][NextRender]_vars

(* the framebuffer entries of line L *)
LineRow(line) == (ScreenWidth * line)..(ScreenWidth * line + ScreenWidth - 1)

(* C34 as stated: the rendering at the VramRead -> HBlank transition of    *)
(* line L changes only the framebuffer entries 160*L..160*L+159 and never  *)
(* indexes outside the framebuffer, whatever LCDC, scroll, window and OAM  *)
(* hold; with the background disabled the line is filled with bg palette   *)
(* entry 0.                                                                *)
C34_RenderConfined ==
    obs.rendered =>
        /\ obs.kind = "cycle"
        /\ \A k \in (DOMAIN mmu.gpu.framebuffer) \cup (DOMAIN obs.before) :
              k \notin LineRow(mmu.gpu.line) =>
                  ArrGet(mmu.gpu.framebuffer, k) = ArrGet(obs.before, k)
        /\ And8(mmu.gpu.lcd_control, LcdControl.LCD_ENABLE) # 0
             /\ And8(mmu.gpu.lcd_control, LcdControl.BG_WINDOW_ENABLE) = 0 =>
                  \A k \in LineRow(mmu.gpu.line) :
                      ArrGet(obs.under, k) = mmu.gpu.bg_palette[1]

(* the pixel of column x, row y of a tile, from the two bytes of the row *)
VramPixel(g, tile, x, y) ==
    BitAt(ArrGet(g.vram, 16 * tile + 2 * y), 7 - x)
      + 2 * BitAt(ArrGet(g.vram, 16 * tile + 2 * y + 1), 7 - x)

(* C35 as stated: a sprite pixel of tile value 0 never changes the         *)
(* framebuffer; a non-zero pixel of a sprite with attribute bit 7 clear is *)
(* always drawn; a non-zero pixel of a sprite with attribute bit 7 set is  *)
(* drawn exactly where the value already rendered there equals bg palette  *)
(* entry 0.                                                                *)
C35_SpritePixels ==
    LET g == mmu.gpu
        y == g.line + 16 - ArrGet(g.oam, 0)
        sprite_x == ArrGet(g.oam, 1) - 8
        behind == BitAt(ArrGet(g.oam, 3), 7) = 1
    IN  obs.rendered /\ obs.kind = "cycle" /\ y \in 0..7
          /\ And8(g.lcd_control, LcdControl.LCD_ENABLE) # 0
          /\ And8(g.lcd_control, LcdControl.OBJ_ENABLE) # 0 =>
            \A x \in 0..7 :
                LET k == g.line * ScreenWidth + sprite_x + x
                    p == VramPixel(g, ArrGet(g.oam, 2), x, y)
                    now == ArrGet(g.framebuffer, k)
                    was == ArrGet(obs.under, k)
                IN  sprite_x + x \in 0..(ScreenWidth - 1) =>
                      IF p = 0 THEN now = was
                      ELSE IF ~behind THEN now = p
                      ELSE IF was = g.bg_palette[1] THEN now = p
                      ELSE now = was

(***************************************************************************)
(* SpecLcd: Gpu::cycle (gpu.rs 122-219) between writes of the LCD          *)
(* registers LCDC, STAT, LY and LYC through Mmu::write (mmu.rs 250-267) and *)
(* Device::reset, from construction.  The observation is that of SpecPpu;  *)
(* a write leaves the record of the line alone.                            *)
(***************************************************************************)
LcdCycles == {8, 16}

LcdWrites == { <<65344, 128>>, <<65345, 72>>, <<65345, 183>>, <<65348, 7>>,
               <<65349, 144>>, <<65349, 150>> }

InitLcd ==
    /\ cpu = CpuNew
    /\ mmu = MmuNew(PlainCart, GpuNew)
    /\ fs = NoFile
    /\ build = DevBuild
    /\ obs = [kind |-> "new", cycles |-> 0, frame |-> FALSE, ints |-> 0,
              before |-> PpuView(mmu.gpu), lineT |-> 0, seen |-> <<mmu.gpu.mode>>,
              marks |-> <<>>, ended |-> NoLine, fresh |-> TRUE]

LcdWriteStep(address, value) ==
    /\ obs.kind # "panic"
    /\ \E r \in {MmuWrite(mmu, address, value)} :
          /\ mmu' = r.mmu
          /\ obs' = [obs EXCEPT !.kind = IF r.err = "none" THEN "write" ELSE "refused",
                                !.cycles = 0, !.frame = FALSE, !.ints = 0,
                                !.before = PpuView(mmu.gpu)]
    /\ UNCHANGED <<cpu, fs, build>>

NextLcd ==
    \/ \E c \in LcdCycles : PpuCycleStep(c)
    \/ PpuResetStep
    \/ \E w \in LcdWrites : LcdWriteStep(w[1], w[2])

SpecLcd == InitLcd /\ [][NextLcd]_vars

(* the STAT sources that fire in a call taking the unit from pre to g *)
StatFires(pre, g) ==
    LET src == g.stat_interrupt_source
    IN  \/ g.mode = "HBlank" /\ pre.mode # "HBlank"
              /\ And8(src, StatInterruptSource.HBLANK) # 0
        \/ g.mode = "VBlank" /\ pre.mode # "VBlank"
              /\ And8(src, StatInterruptSource.VBLANK) # 0
        \/ g.mode = "OamRead" /\ pre.mode # "OamRead"
              /\ And8(src, StatInterruptSource.OAM) # 0
        \/ g.line # pre.line /\ g.line = g.lyc
              /\ And8(src, StatInterruptSource.LYC_LY) # 0

(* C36: Gpu::cycle returns LCD-STAT in exactly the calls in which an       *)
(* enabled STAT source fires: the entry into HBlank, VBlank or OamRead     *)
(* with that mode's bit set, or the line changing to the value of LYC with *)
(* the LYC=LY bit set, for every line 0..153; with the four bits clear it  *)
(* is never returned.                                                      *)
C36_StatSources ==
    obs.kind = "cycle" =>
        (IntContains(obs.ints, Interrupts.LCD_STAT) <=> StatFires(obs.before, mmu.gpu))

(* C38: from construction or reset, through any calls of Gpu::cycle and    *)
(* any register writes, the line is in 0..153, the mode is VBlank exactly  *)
(* on the lines 144..153, a read of 0xFF44 gives the line and bits 0..1 of *)
(* a read of 0xFF41 give the mode.                                         *)
C38_PpuInvariant ==
    LET g == mmu.gpu
    IN  /\ g.line \in 0..153
        /\ g.mode = "VBlank" <=> g.line \in 144..153
        /\ MmuRead(mmu, 65348) = Ok(g.line)
        /\ MmuRead(mmu, 65345).err = "none"
        /\ And8(MmuRead(mmu, 65345).val, 3) = ModeNum(g.mode)

C38_Witness ==
    /\ obs.kind = "write" /\ mmu.gpu.line = 153 /\ mmu.gpu.mode = "VBlank"
    /\ mmu.gpu.lcd_control = 128 /\ mmu.gpu.stat_interrupt_source = 48
    /\ mmu.gpu.lyc = 150 /\ ~obs.fresh

(***************************************************************************)
(* SpecAlu: SUB, SBC and CP (cpu.rs 636-654, subtract_a 803-820) executed  *)
(* by Cpu::exec_next_instruction on every accumulator and every operand,   *)
(* in B or in the byte after the opcode, the carry flag clear or set, in   *)
(* the debug and the release build.  It is executed MaxAluSteps            *)
(* times in a row, each time on the accumulator and the flags the one      *)
(* before left; obs holds the accumulator, the operand and the flags the   *)
(* last execution started from.                                            *)
(***************************************************************************)
MaxAluSteps == 1

(* SBC A,B, CP B, SUB d8 *)
AluOpcodes == {152, 184, 214}

AluImmediate == {214, 222, 254}

AluOperands == 0..255

AluFlags == {0, 16}

AluProg(opcode, b) ==
    LET n == MaxAluSteps + 1
    IN  IF opcode \in AluImmediate
        THEN [i \in 1..(2 * n) |-> IF i % 2 = 1 THEN opcode ELSE b]
        ELSE [i \in 1..n |-> opcode]

InitAlu ==
    \E opcode \in AluOpcodes, a \in 0..255, b \in AluOperands, f0 \in AluFlags :
        /\ cpu = [CpuNew EXCEPT !.pc = EntryPoint, !.a = a, !.f = f0,
                                !.b = IF opcode \in AluImmediate THEN 0 ELSE b]
        /\ mmu = MmuRunning(AluProg(opcode, b))
        /\ fs = NoFile
        /\ build \in Builds
        /\ obs = [kind |-> "new", opcode |-> opcode, steps |-> 0, a |-> a, b |-> b,
                  f |-> f0, pc |-> EntryPoint, cycles |-> 0, err |-> "none"]

AluStep ==
    /\ obs.kind # "panic"
    /\ obs.steps < MaxAluSteps
    /\ \E e \in {ExecNextInstruction(St(cpu, mmu, build.overflow_checks))} :
          /\ IF Failed(e.st)
             THEN UNCHANGED <<cpu, mmu>>
             ELSE cpu' = e.st.cpu /\ mmu' = e.st.mmu
          /\ obs' = [obs EXCEPT !.kind = IF Failed(e.st) THEN "panic" ELSE "step",
                                !.steps = obs.steps + 1, !.a = cpu.a, !.f = cpu.f,
                                !.pc = cpu.pc, !.cycles = e.cycles, !.err = e.st.err]
    /\ UNCHANGED <<fs, build>>

NextAlu == AluStep

SpecAlu == InitAlu /\ [][NextAlu]_vars

(* F as the four flags pack into it: Z bit 7, N bit 6, H bit 5, C bit 4 *)
PackFlags(z, n, h, cy) ==
    (IF z THEN 128 ELSE 0) + (IF n THEN 64 ELSE 0) + (IF h THEN 32 ELSE 0)
        + (IF cy THEN 16 ELSE 0)

(* C37: SUB, SBC and CP of b from the accumulator a with carry-in c (0 for *)
(* SUB and CP) give r = (a - b - c) mod 256 and the flags Z = (r = 0),     *)
(* N = 1, H = ((a mod 16) < (b mod 16) + c), C = (a < b + c), b + c taken  *)
(* without 8-bit overflow; SUB and SBC store r in A and CP leaves A as it  *)
(* was.  No execution fails, in either build.                              *)
C37_SubtractFlags ==
    LET a == obs.a
        b == obs.b
        c == IF obs.opcode \in {152, 222} /\ (obs.f \div 16) % 2 = 1 THEN 1 ELSE 0
        r == (a - b - c) % 256
    IN  /\ obs.kind # "panic"
        /\ obs.kind = "step" =>
              /\ cpu.f = PackFlags(r = 0, TRUE, a % 16 < (b % 16) + c, a < b + c)
              /\ cpu.a = IF obs.opcode \in {184, 254} THEN a ELSE r

(* SBC A,B of 0xFF with the carry set from 0x00: r = 0x00, all of Z, N, H, C *)
C37_Witness ==
    /\ obs.kind = "step" /\ obs.opcode = 152 /\ obs.a = 0 /\ obs.b = 255 /\ obs.f = 16
    /\ cpu.a = 0 /\ cpu.f = 240 /\ ~build.overflow_checks

(***************************************************************************)
(* SpecReti: Mmu::step on a cartridge whose five interrupt vectors hold    *)
(* RETI (0xD9), with interrupts pending and enabled at the start, the      *)
(* stack in work RAM or high RAM.  The steps and the observation are those *)
(* of SpecStep.                                                            *)
(***************************************************************************)
(* NOP NOP NOP NOP NOP; HALT NOP NOP NOP NOP; EI NOP NOP NOP NOP *)
RetiProgs == << <<0, 0, 0, 0, 0>>, <<118, 0, 0, 0, 0>>, <<251, 0, 0, 0, 0>> >>

RetiPending == {1, 4, 18, 31}

RetiEnabled == {5, 31}

(* the top of high RAM, work RAM, the first and the last two bytes of work *)
(* RAM, the first two bytes of high RAM                                    *)
RetiStacks == {65534, 53248, 49154, 57344, 65410}

RetiOpcode == 217

RetiVectors == {64 + 8 * k : k \in 0..4}

RetiImage(prog) ==
    LET r == RomImage(2, 0, 0, 195, prog)
    IN  Vec(r.len, [o \in (DOMAIN r.data) \cup RetiVectors |->
                       IF o \in RetiVectors THEN RetiOpcode ELSE r.data[o]])

InitReti ==
    \E p \in DOMAIN RetiProgs, if0 \in RetiPending, ie0 \in RetiEnabled,
       ime0 \in {"Disabled", "Enabled"}, sp0 \in RetiStacks :
        /\ cpu = [CpuNew EXCEPT !.pc = EntryPoint, !.sp = sp0, !.interrupt_state = ime0]
        /\ mmu = MmuAfterAll(MmuNew(CartridgeNew(RetiImage(RetiProgs[p])), GpuNew),
                             << <<65360, 1>>, <<65295, if0>>, <<65535, ie0>> >>)
        /\ fs = NoFile
        /\ build \in Builds
        /\ obs = StepObs("new", 0, [prog |-> p, if0 |-> if0, ie0 |-> ie0, ime0 |-> ime0,
                                    sp0 |-> sp0],
                         [ err |-> "none", cycles |-> 0, pre |-> DispatchView(cpu, mmu),
                           enabled |-> ie0, post |-> DispatchView(cpu, mmu), dcycles |-> 0,
                           handled |-> 0, tcycles |-> 0, frame |-> FALSE ])

NextReti == Step

SpecReti == InitReti /\ [][NextReti]_vars

(* C39: the step after one that dispatched an interrupt with the next      *)
(* instruction at p and the stack pointer at s, the stack in work RAM or   *)
(* high RAM and RETI at the vector, executes that RETI: after it PC = p,   *)
(* SP = s and IME is Enabled at once, so that an interrupt still pending   *)
(* and enabled is dispatched at the end of that same step (p pushed again  *)
(* at s) and otherwise the step ends with PC = p, SP = s, IME Enabled.     *)
C39_DispatchRetiInverse ==
    [][ (obs.kind = "step" /\ obs.handled # 0 /\ RamStack(obs.pre.sp)
            /\ MmuRead(mmu, cpu.pc) = Ok(RetiOpcode))
        => /\ obs'.kind = "step"
           /\ obs'.cycles = 4
           /\ obs'.pre.pc = obs.pre.pc
           /\ obs'.pre.sp = obs.pre.sp
           /\ obs'.pre.ime = "Enabled"
           /\ IF And8(obs'.pre.pending, obs'.enabled) # 0
              THEN /\ obs'.handled # 0
                   /\ cpu'.pc \in RetiVectors
                   /\ cpu'.sp = U16(obs.pre.sp + 65534)
                   /\ cpu'.interrupt_state = "Disabled"
                   /\ MmuRead(mmu', cpu'.sp).val
                         + 256 * MmuRead(mmu', U16(cpu'.sp + 1)).val = obs.pre.pc
              ELSE /\ obs'.handled = 0
                   /\ cpu'.pc = obs.pre.pc
                   /\ cpu'.sp = obs.pre.sp
                   /\ cpu'.interrupt_state = "Enabled"
      ]_vars

(* NOP, the timer interrupt dispatched with the stack at 0xE000, RETI back *)
(* to 0x0101                                                               *)
C39_Witness ==
    /\ obs.kind = "step" /\ obs.steps = 2 /\ obs.scn.prog = 1 /\ obs.scn.if0 = 4
    /\ obs.scn.ime0 = "Enabled" /\ obs.scn.sp0 = 57344
    /\ obs.cycles = 4 /\ obs.handled = 0
    /\ cpu.pc = EntryPoint + 1 /\ cpu.sp = 57344 /\ cpu.interrupt_state = "Enabled"

(***************************************************************************)
(* SpecHalt: Mmu::step around HALT with the timer about to overflow once   *)
(* (TMA 0) or at every increment (TMA 0xFF), the timer interrupt enabled   *)
(* or not.  The steps and the observation are those of SpecWake.           *)
(***************************************************************************)
(* HALT NOP NOP; NOP HALT NOP; EI HALT NOP *)
HaltProgs == << <<118, 0, 0>>, <<0, 118, 0>>, <<251, 118, 0>> >>

HaltModulos == {0, 255}

InitHalt ==
    \E p \in DOMAIN HaltProgs, tma \in HaltModulos, tima \in WakeTimas, ie0 \in WakeEnables,
       ime0 \in {"Disabled", "Enabled"} :
        /\ cpu = [CpuNew EXCEPT !.pc = EntryPoint, !.sp = 65534, !.interrupt_state = ime0]
        /\ mmu = MmuAfterAll(MmuRunning(HaltProgs[p]),
                             << <<65287, 5>>, <<65286, tma>>, <<65285, tima>>, <<65535, ie0>> >>)
        /\ fs = NoFile
        /\ build = DevBuild
        /\ obs = [kind |-> "new", steps |-> 0, op |-> -1, was |-> WakeView(cpu, mmu),
                  cycles |-> 0, pre |-> DispatchView(cpu, mmu), enabled |-> ie0,
                  post |-> DispatchView(cpu, mmu), dcycles |-> 0, handled |-> 0,
                  gpu1 |-> 0, timer1 |-> 0, gpu2 |-> 0, timer2 |-> 0,
                  prev |-> [op |-> -1, ime |-> ime0, raised |-> 0, handled |-> 0]]

NextHalt == WakeStep

SpecHalt == InitHalt /\ [][NextHalt]_vars

(* what a step that leaves a halted CPU frozen does: the 4 idle cycles, no *)
(* register, PC, SP, IME or halted changed, the PPU and the Timer advanced *)
WakeFrozen ==
    /\ obs'.kind = "step"
    /\ obs'.cycles = HaltedCycles
    /\ cpu' = cpu
    /\ cpu'.halted
    /\ obs'.handled = 0 /\ obs'.dcycles = 0
    /\ obs'.gpu1 > 0 /\ obs'.timer1 > 0

(* C40 as stated: every step that starts halted and ends with pending &    *)
(* enabled empty fetches no instruction, leaves PC, SP, the registers, IME *)
(* and halted as they were and advances the PPU and the Timer.             *)
C40_HaltedFrozen ==
    [][ cpu.halted /\ And8(mmu'.interrupts, mmu'.interrupts_enabled) = 0 => WakeFrozen ]_vars

(* C40 amended: every step that starts halted and finds pending & enabled  *)
(* empty after its PPU and Timer ticks (before any dispatch) fetches no     *)
(* instruction, leaves PC, SP, the registers, IME and halted as they were  *)
(* and advances the PPU and the Timer; halted becomes false only in a step *)
(* that finds pending & enabled not empty after the ticks, and becomes     *)
(* true only in a step that executes HALT.                                 *)
C40_HaltedFrozenAmended ==
    [][ /\ cpu.halted /\ And8(obs'.pre.pending, obs'.enabled) = 0 => WakeFrozen
        /\ cpu.halted /\ ~cpu'.halted => And8(obs'.pre.pending, obs'.enabled) # 0
        /\ ~cpu.halted /\ cpu'.halted => obs'.op = 118 /\ obs'.kind = "step"
      ]_vars

(* HALT executed after EI, and the CPU still halted a step later with the  *)
(* timer running and no interrupt enabled                                  *)
C40_Witness ==
    /\ obs.kind = "step" /\ obs.was.halted /\ cpu.halted /\ obs.prev.op = 118
    /\ obs.enabled = 0 /\ obs.pre.pending = 4 /\ cpu.interrupt_state = "Enabled"
    /\ obs.gpu1 = 16 /\ obs.timer1 = 4 /\ mmu.timer.modulo = 0

====
